---- MODULE Spec2Model ----
(***************************************************************************)
(* Model of the presence-aware-switch firmware (ESP-32, version 2.3.4):    *)
(* the LedMan LED arbiter (lib/LedMan/LedMan.cpp) and the control loop of  *)
(* the firmware (doHandleButtonPresses, doBTScan, doPurgeOldSeenDevices,   *)
(* handleBTScanResults, doCheckLearnTask, ...).                            *)
(***************************************************************************)
EXTENDS Integers, Sequences, FiniteSets, TLC

VARIABLES
    ledMan,                  \* LedMan ledMan
    gpio,                    \* pin -> level
    lastCall,                \* LedSpec: the LedMan call that led to this state
    millis,                  \* millis(), the millisecond clock (unsigned long)
    ticks,                   \* clock ticks since setup() finished
    pc,                      \* the function loop() calls next
    settings,                \* Settings::nvSettings
    eeprom,                  \* the NVSettings persisted in flash
    onState,                 \* Settings::vSettings.onState
    seenDevices,             \* id -> millis() of the last sighting
    seenRssis,               \* id -> RSSI of the last sighting
    triggerFactoryReset, triggerDeviceLearn, triggerWifiIsOn,
    isLearning, isScanning, isWifiIsOn,
    scanningWatchdogMillis, btScanWDExpos,
    timerMillis,             \* doHandleButtonPresses: static timerMillis
    subTimerMillis,          \* doHandleButtonPresses: static subTimerMillis
    timmerMillis,            \* doActivateDeactivateWiFi: static timmerMillis
    firstRun,                \* doBTScan: static firstRun
    wifiOnStartMillis,       \* doBTScan: static wifiOnStartMillis
    learnStartMillis,        \* doCheckLearnTask: static learnStartMillis
    lastPage,                \* the message of the last settings page served
    scanActive,              \* the BLE driver runs a scan that will call back
    world,                   \* what surrounds the device: beacons, web clients
    lastRelease,             \* what the last observed button release committed
    lastPurge,               \* what the last doPurgeOldSeenDevices call did
    lastSwitch,              \* what the last doHandleOnOffSwitching call did
    awakeMillis,             \* clock time passed outside WiFi suspensions
    seenAwake,               \* id -> awakeMillis at its last sighting
    lastScan,                \* the results the step delivered, if it was a callback
    lastPost,                \* what the handleSettingsPost call of the step did
    uptime,                  \* time since boot, never wrapped, and its stamps
    lastHold,                \* what the last doHandleButtonPresses call saw held
    callback                 \* RaceSpec: how far handleBTScanResults has come

(***************************************************************************)
(* Arduino levels and limits.                                              *)
(***************************************************************************)
LOW == 0
HIGH == 1
IntMax == 2147483647

PAIR_BTN_PIN == 32
LEARN_LED_PIN == 13
CONTROLLED_DEVICE_PIN == 2
CLOSE_LED_PIN == 17

LEARN_LED_ID == "learn_led"
CLOSE_LED_ID == "close_led"

LEARN_FUNCTION_ID == "learn"
FACTORY_RESET_FUNCTION_ID == "factory"
WIFI_ENABLE_FUNCTION_ID == "wifi"
WIFI_DISABLE_FUNCTION_ID == "wifi_off"
CLOSE_FUNCTION_ID == "close"

UNPAIRED == "xx:xx:xx:xx:xx:xx"

(***************************************************************************)
(* unsigned long arithmetic.  The clock is 32 bits wide on the ESP-32; the *)
(* checker's integers are 32-bit signed, so the model keeps the same       *)
(* wrap-around arithmetic on a 16-bit clock, which still holds every       *)
(* duration of the firmware (the largest is the 60000 ms default of        *)
(* maxNotSeenMillis).                                                      *)
(***************************************************************************)
ULongWrap == 65536

ULong(x) == x % ULongWrap

\* Variant of Elapsed: the difference is taken without the wrap.
ElapsedUnwrapped(now, since) == IF now >= since THEN now - since ELSE 0

Elapsed(now, since) == ULong(now - since)

(***************************************************************************)
(* std::map helpers: a map is a function whose DOMAIN is its key set.      *)
(***************************************************************************)
EmptyMap == [k \in {} |-> 0]

MapCount(m, k) == IF k \in DOMAIN m THEN 1 ELSE 0

MapPut(m, k, v) == [x \in (DOMAIN m) \cup {k} |-> IF x = k THEN v ELSE m[x]]

MapErase(m, k) == [x \in (DOMAIN m) \ {k} |-> m[x]]

(***************************************************************************)
(* std::map iterates its keys in std::string order.  The caller and LED    *)
(* ids of the model, listed in that order (upper case sorts before lower   *)
(* case).                                                                  *)
(***************************************************************************)
CallerOrder == <<"A", "B", "C", "close", "factory", "learn", "wifi", "wifi_off">>

LedOrder == <<"close_led", "learn_led">>

(***************************************************************************)
(* LedMan.  The object is the record                                       *)
(*   registeredLeds : ledId -> pin                                         *)
(*   priorities     : caller -> priority                                   *)
(*   locks          : <<caller, ledId>> -> 1                               *)
(*   callerStates   : <<caller, ledId>> -> LOW | HIGH                      *)
(* The nested maps of the source are keyed here by the pair; an outer      *)
(* entry with an empty inner map is not observable through the class.      *)
(***************************************************************************)
NewLedMan ==
    [registeredLeds |-> EmptyMap, priorities |-> EmptyMap,
     locks |-> EmptyMap, callerStates |-> EmptyMap]

addLed(lm, ledPin, ledId) ==
    [lm EXCEPT !.registeredLeds = MapPut(@, ledId, ledPin)]

setCallerPriority(lm, caller, priority) ==
    [lm EXCEPT !.priorities = MapPut(@, caller, priority)]

lockLed(lm, ledId, caller) ==
    IF MapCount(lm.locks, <<caller, ledId>>) = 0
    THEN [lm EXCEPT !.locks = MapPut(@, <<caller, ledId>>, 1),
                    !.callerStates =
                        IF MapCount(lm.callerStates, <<caller, ledId>>) = 0
                        THEN MapPut(@, <<caller, ledId>>, LOW)
                        ELSE @]
    ELSE lm

\* Variant of releaseLed: the caller's demand goes with the lock, whatever its
\* level.
releaseLedDropsDemand(lm, ledId, caller) ==
    IF MapCount(lm.locks, <<caller, ledId>>) > 0
    THEN [lm EXCEPT !.locks = MapErase(@, <<caller, ledId>>),
                    !.callerStates = MapErase(@, <<caller, ledId>>)]
    ELSE lm

releaseLed(lm, ledId, caller) ==
    IF MapCount(lm.locks, <<caller, ledId>>) > 0
    THEN [lm EXCEPT !.locks = MapErase(@, <<caller, ledId>>),
                    !.callerStates =
                        IF /\ MapCount(lm.callerStates, <<caller, ledId>>) > 0
                           /\ lm.callerStates[<<caller, ledId>>] = LOW
                        THEN MapErase(@, <<caller, ledId>>)
                        ELSE @]
    ELSE lm

\* Variant of ledOn: the demands of the other callers on the LED are dropped.
ledOnAlone(lm, ledId, caller) ==
    [lm EXCEPT !.callerStates =
        [k \in {x \in (DOMAIN lm.callerStates) \cup {<<caller, ledId>>} :
                    x[2] # ledId \/ x[1] = caller} |->
            IF k = <<caller, ledId>> THEN HIGH ELSE lm.callerStates[k]]]

ledOn(lm, ledId, caller) ==
    [lm EXCEPT !.callerStates = MapPut(@, <<caller, ledId>>, HIGH)]

ledOffKeepsLow(lm, ledId, caller) ==
    [lm EXCEPT !.callerStates = MapPut(@, <<caller, ledId>>, LOW)]

ledOff(lm, ledId, caller) ==
    IF MapCount(lm.locks, <<caller, ledId>>) > 0
    THEN [lm EXCEPT !.callerStates = MapPut(@, <<caller, ledId>>, LOW)]
    ELSE [lm EXCEPT !.callerStates = MapErase(@, <<caller, ledId>>)]

currentState(lm, ledId, caller) ==
    IF MapCount(lm.callerStates, <<caller, ledId>>) > 0
    THEN lm.callerStates[<<caller, ledId>>]
    ELSE LOW

\* Variant of ledToggle: an on demand is toggled to a stored off demand.
ledToggleStoresLow(lm, ledId, caller) ==
    IF currentState(lm, ledId, caller) = HIGH
    THEN [lm EXCEPT !.callerStates = MapPut(@, <<caller, ledId>>, LOW)]
    ELSE ledOn(lm, ledId, caller)

ledToggle(lm, ledId, caller) ==
    IF currentState(lm, ledId, caller) = HIGH
    THEN ledOff(lm, ledId, caller)
    ELSE ledOn(lm, ledId, caller)

(***************************************************************************)
(* LedMan::loop().  The inner loop visits the callers in map order and     *)
(* keeps lastPriority / calcState; reading priorities[caller] of a caller  *)
(* without a priority inserts the default 0 into the map.                  *)
(***************************************************************************)
\* Variant of TakesOver: a caller of equal priority does not take over.
TakesOverStrict(prios, caller, lastPriority) ==
    \/ lastPriority = IntMax
    \/ /\ MapCount(prios, caller) > 0
       /\ prios[caller] < lastPriority

TakesOverLargest(prios, caller, lastPriority) ==
    \/ lastPriority = IntMax
    \/ /\ MapCount(prios, caller) > 0
       /\ prios[caller] >= lastPriority

TakesOver(prios, caller, lastPriority) ==
    \/ lastPriority = IntMax
    \/ /\ MapCount(prios, caller) > 0
       /\ prios[caller] <= lastPriority

RECURSIVE CallerScan(_, _, _, _, _)
CallerScan(lm, ledId, i, lastPriority, calcState) ==
    IF i > Len(CallerOrder)
    THEN [calcState |-> calcState, priorities |-> lm.priorities]
    ELSE LET caller == CallerOrder[i] IN
         IF /\ MapCount(lm.callerStates, <<caller, ledId>>) > 0
            /\ TakesOver(lm.priorities, caller, lastPriority)
         THEN LET prios == IF MapCount(lm.priorities, caller) > 0
                           THEN lm.priorities
                           ELSE MapPut(lm.priorities, caller, 0)
              IN CallerScan([lm EXCEPT !.priorities = prios], ledId, i + 1,
                            prios[caller], lm.callerStates[<<caller, ledId>>])
         ELSE CallerScan(lm, ledId, i + 1, lastPriority, calcState)

RECURSIVE LedScan(_, _, _)
LedScan(lm, io, j) ==
    IF j > Len(LedOrder)
    THEN [lm |-> lm, io |-> io]
    ELSE LET ledId == LedOrder[j] IN
         IF MapCount(lm.registeredLeds, ledId) = 0
         THEN LedScan(lm, io, j + 1)
         ELSE LET r == CallerScan(lm, ledId, 1, IntMax, LOW)
                  ledPin == lm.registeredLeds[ledId]
              IN LedScan([lm EXCEPT !.priorities = r.priorities],
                         [io EXCEPT ![ledPin] = r.calcState], j + 1)

LedManLoop(lm, io) == LedScan(lm, io, 1)

(***************************************************************************)
(* The firmware (version 2.3.4).                                           *)
(***************************************************************************)
fwVars ==
    <<millis, ticks, pc, settings, eeprom, onState, seenDevices, seenRssis,
      triggerFactoryReset, triggerDeviceLearn, triggerWifiIsOn,
      isLearning, isScanning, isWifiIsOn,
      scanningWatchdogMillis, btScanWDExpos,
      timerMillis, subTimerMillis, timmerMillis, firstRun,
      wifiOnStartMillis, learnStartMillis, lastPage,
      scanActive, world, lastRelease, lastPurge, lastSwitch,
      awakeMillis, seenAwake, lastScan, lastPost, lastHold, callback,
      uptime>>

vars == <<ledMan, gpio, lastCall, fwVars>>

\* Settings::factorySettings
FactorySettings ==
    [maxNearRssi |-> -80, closeRssi |-> -50, maxNotSeenMillis |-> 60000,
     learnDurationMillis |-> 10000, triggerLearnMillis |-> 5000,
     triggerFactoryMillis |-> 30000, triggerWiFiOnMillis |-> 10000,
     triggerWiFiOffMillis |-> 5000, pairedAddress |-> UNPAIRED,
     apPwd |-> "P@ssw0rd123"]

\* setup() returns after its two delay(1000UL).
BootMillis == 2000

\* Bound of the exploration: the longest time the environment keeps the
\* button down.  (The number of clock ticks per boot is bounded by the
\* world, see world.maxTicks.)
MaxHold == 5

\* The functions of loop(), in call order.
LoopOrder ==
    <<"ledMan.loop", "doBTScan", "doHandleOnOffSwitching",
      "doCheckForCloseDevice", "doHandleButtonPresses", "doCheckFactoryReset",
      "doCheckLearnTask", "doHandleNetworkTasks">>

NextPc(p) ==
    LET i == CHOOSE k \in 1 .. Len(LoopOrder) : LoopOrder[k] = p
    IN LoopOrder[(i % Len(LoopOrder)) + 1]

\* setup(): LEDs registered, priorities set, pins low.
SetupLedMan ==
    LET m1 == addLed(NewLedMan, LEARN_LED_PIN, LEARN_LED_ID)
        m2 == addLed(m1, CLOSE_LED_PIN, CLOSE_LED_ID)
        m3 == setCallerPriority(m2, FACTORY_RESET_FUNCTION_ID, 1)
        m4 == setCallerPriority(m3, LEARN_FUNCTION_ID, 2)
        m5 == setCallerPriority(m4, WIFI_DISABLE_FUNCTION_ID, 1)
        m6 == setCallerPriority(m5, WIFI_ENABLE_FUNCTION_ID, 2)
    IN setCallerPriority(m6, CLOSE_FUNCTION_ID, 3)

SetupGpio ==
    [p \in {PAIR_BTN_PIN, LEARN_LED_PIN, CONTROLLED_DEVICE_PIN, CLOSE_LED_PIN}
        |-> LOW]

NoRelease == [observed |-> FALSE, elapsed |-> 0, enabled |-> FALSE,
              active |-> FALSE, committed |-> {}]

NoPurge == [ran |-> FALSE, wifiOnMillis |-> 0, erased |-> {}, bumped |-> {}]

NoScan == [ran |-> FALSE, results |-> EmptyMap]

NoSwitch == [ran |-> FALSE, before |-> LOW, state |-> FALSE, wrote |-> FALSE]

NoPost == [ran |-> FALSE, changed |-> {}, saves |-> 0, ok |-> FALSE]

NoHold == [held |-> FALSE, elapsed |-> 0, active |-> FALSE]

\* handleBTScanResults is not running.
CallbackIdle == [busy |-> FALSE, todo |-> EmptyMap, half |-> ""]

\* Bookkeeping of every step: the results a callback step delivered (scan);
\* the clock time that passes while doBTScan is
\* not measuring a suspension (wifiOnStartMillis = 0) is time awake, and the
\* ids sighted in the step (hits) are stamped with the time awake so far; the
\* stamp of an id outlives its record.
\* No watchdog expiry or learning window has ended yet.
NoSpan == [from |-> 0, to |-> 0]

\* scanning: the expiry found isScanning set (no completion callback yet).
NoExpiry == [from |-> 0, to |-> 0, scanning |-> FALSE]

\* uptime at boot: now is the time since power-up, wd and learn are the
\* times at which scanningWatchdogMillis and learnStartMillis were last
\* written, wdOver and learnOver the span of the last watchdog expiry and
\* of the last learning window that ended.
BootUptime(now) ==
    [now |-> now, wd |-> 0, learn |-> 0, wdOver |-> NoExpiry,
     learnOver |-> NoSpan]

\* The clock only runs forward, and by less than one turn in a step.
Uptime ==
    LET up == uptime.now + (IF millis' >= millis THEN millis' - millis
                            ELSE millis' + ULongWrap - millis)
        scanRan == pc = "doBTScan" /\ pc' # pc
        learnRan == pc = "doCheckLearnTask" /\ pc' # pc
    IN [now |-> up,
        wd |-> IF scanRan /\ scanningWatchdogMillis' = millis'
               THEN up ELSE uptime.wd,
        learn |-> IF learnRan /\ ~isLearning /\ isLearning'
                  THEN up ELSE uptime.learn,
        wdOver |-> IF scanRan /\ btScanWDExpos' # btScanWDExpos
                   THEN [from |-> uptime.wd, to |-> uptime.now,
                         scanning |-> isScanning]
                   ELSE uptime.wdOver,
        learnOver |-> IF learnRan /\ isLearning /\ ~triggerDeviceLearn'
                      THEN [from |-> uptime.learn, to |-> uptime.now]
                      ELSE uptime.learnOver]

Stamped(scan, hits) ==
    /\ lastScan' = scan
    /\ uptime' = Uptime
    /\ awakeMillis' = IF wifiOnStartMillis = 0
                      THEN awakeMillis + Elapsed(millis', millis)
                      ELSE awakeMillis
    /\ seenAwake' = [id \in (DOMAIN seenAwake) \cup hits |->
                        IF id \in hits THEN awakeMillis ELSE seenAwake[id]]

\* The bookkeeping of a step that serves no settings POST.
Observed(scan, hits) == Stamped(scan, hits) /\ lastPost' = NoPost

\* The state in which loop() is entered for the first time after a boot
\* that loaded the NVSettings nv from flash.
NoWorld ==
    [beacons |-> {}, rssis |-> {}, forms |-> {}, steps |-> {1}, maxTicks |-> 0]

FirmwareBooted(nv, w) ==
    /\ millis = BootMillis
    /\ ticks = 0
    /\ pc = LoopOrder[1]
    /\ settings = nv
    /\ eeprom = nv
    /\ onState = FALSE
    /\ seenDevices = EmptyMap
    /\ seenRssis = EmptyMap
    /\ triggerFactoryReset = FALSE
    /\ triggerDeviceLearn = FALSE
    /\ triggerWifiIsOn = FALSE
    /\ isLearning = FALSE
    /\ isScanning = FALSE
    /\ isWifiIsOn = FALSE
    /\ scanningWatchdogMillis = 0
    /\ btScanWDExpos = 0
    /\ timerMillis = 0
    /\ subTimerMillis = 0
    /\ timmerMillis = 0
    /\ firstRun = TRUE
    /\ wifiOnStartMillis = 0
    /\ learnStartMillis = 0
    /\ lastPage = "none"
    /\ scanActive = FALSE
    /\ world = w
    /\ lastRelease = NoRelease
    /\ lastPurge = NoPurge
    /\ lastSwitch = NoSwitch
    /\ awakeMillis = 0
    /\ seenAwake = EmptyMap
    /\ lastScan = NoScan
    /\ lastPost = NoPost
    /\ lastHold = NoHold
    /\ callback = CallbackIdle
    /\ uptime = BootUptime(BootMillis)

Booted(nv, w) ==
    /\ ledMan = SetupLedMan
    /\ gpio = SetupGpio
    /\ lastCall = [op |-> "new", led |-> "", caller |-> ""]
    /\ FirmwareBooted(nv, w)

\* millis() advances; the model lets it advance between two iterations of
\* loop() (and by the delay() calls inside the functions).
Tick ==
    /\ pc = LoopOrder[1]
    /\ ticks < world.maxTicks
    /\ \E step \in world.steps : millis' = ULong(millis + step)
    /\ ticks' = ticks + 1
    /\ UNCHANGED <<ledMan, gpio, lastCall, pc, settings, eeprom, onState,
                   seenDevices, seenRssis, triggerFactoryReset,
                   triggerDeviceLearn, triggerWifiIsOn, isLearning, isScanning,
                   isWifiIsOn, scanningWatchdogMillis, btScanWDExpos,
                   timerMillis, subTimerMillis, timmerMillis, firstRun,
                   wifiOnStartMillis, learnStartMillis, lastPage,
                   scanActive, world, lastRelease, lastPurge,
                   lastSwitch, lastHold, callback>>
    /\ Observed(NoScan, {})

(***************************************************************************)
(* doHandleButtonPresses.                                                  *)
(***************************************************************************)
\* What the held button shows: the branch taken while the level is HIGH.
HoldFeedback(elapsedMillis, s, wifiOn) ==
    IF ~wifiOn /\ elapsedMillis > s.triggerFactoryMillis THEN "FactoryReset"
    ELSE IF \/ elapsedMillis > s.triggerWiFiOnMillis
            \/ (wifiOn /\ elapsedMillis > s.triggerWiFiOffMillis)
         THEN "WifiToggle"
    ELSE IF ~wifiOn /\ elapsedMillis >= s.triggerLearnMillis THEN "Learn"
    ELSE "none"

\* Variants of ReleaseTrigger with one slip each.
ReleaseTriggerLearnInWifi(elapsedMillis, s, wifiOn) ==
    IF ~wifiOn /\ elapsedMillis > s.triggerFactoryMillis THEN "FactoryReset"
    ELSE IF \/ elapsedMillis > s.triggerWiFiOnMillis
            \/ (wifiOn /\ elapsedMillis > s.triggerWiFiOffMillis)
         THEN "WifiToggle"
    ELSE IF elapsedMillis >= s.triggerLearnMillis THEN "Learn"
    ELSE "none"

ReleaseTriggerWifiFirst(elapsedMillis, s, wifiOn) ==
    IF \/ elapsedMillis > s.triggerWiFiOnMillis
       \/ (wifiOn /\ elapsedMillis > s.triggerWiFiOffMillis)
    THEN "WifiToggle"
    ELSE IF ~wifiOn /\ elapsedMillis > s.triggerFactoryMillis
         THEN "FactoryReset"
    ELSE IF ~wifiOn /\ elapsedMillis >= s.triggerLearnMillis THEN "Learn"
    ELSE "none"

ReleaseTriggerLearnFirst(elapsedMillis, s, wifiOn) ==
    IF ~wifiOn /\ elapsedMillis > s.triggerFactoryMillis THEN "FactoryReset"
    ELSE IF ~wifiOn /\ elapsedMillis >= s.triggerLearnMillis THEN "Learn"
    ELSE IF \/ elapsedMillis > s.triggerWiFiOnMillis
            \/ (wifiOn /\ elapsedMillis > s.triggerWiFiOffMillis)
         THEN "WifiToggle"
    ELSE "none"

ReleaseTriggerFactoryAtThreshold(elapsedMillis, s, wifiOn) ==
    IF ~wifiOn /\ elapsedMillis >= s.triggerFactoryMillis THEN "FactoryReset"
    ELSE IF \/ elapsedMillis > s.triggerWiFiOnMillis
            \/ (wifiOn /\ elapsedMillis > s.triggerWiFiOffMillis)
         THEN "WifiToggle"
    ELSE IF ~wifiOn /\ elapsedMillis >= s.triggerLearnMillis THEN "Learn"
    ELSE "none"

\* What a release commits: the branch taken once the level is LOW again.
ReleaseTrigger(elapsedMillis, s, wifiOn) ==
    IF ~wifiOn /\ elapsedMillis > s.triggerFactoryMillis THEN "FactoryReset"
    ELSE IF \/ elapsedMillis > s.triggerWiFiOnMillis
            \/ (wifiOn /\ elapsedMillis > s.triggerWiFiOffMillis)
         THEN "WifiToggle"
    ELSE IF ~wifiOn /\ elapsedMillis >= s.triggerLearnMillis THEN "Learn"
    ELSE "none"

\* for (int i = 0; i < 4; i++) { ledToggle; ledMan.loop(); delay(50UL); }
RECURSIVE FlashLearnLed(_, _, _)
FlashLearnLed(lm, io, n) ==
    IF n = 0
    THEN [lm |-> lm, io |-> io]
    ELSE LET t == ledToggle(lm, LEARN_LED_ID, FACTORY_RESET_FUNCTION_ID)
             r == LedManLoop(t, io)
         IN FlashLearnLed(r.lm, r.io, n - 1)

HoldFactoryLeds(lm, io) ==
    LET m1 == releaseLed(lm, CLOSE_LED_ID, WIFI_ENABLE_FUNCTION_ID)
        m2 == ledOff(m1, CLOSE_LED_ID, WIFI_ENABLE_FUNCTION_ID)
        m3 == lockLed(m2, LEARN_LED_ID, FACTORY_RESET_FUNCTION_ID)
    IN FlashLearnLed(m3, io, 4)

HoldWifiLeds(lm, wifiOn, flash) ==
    LET m1 == ledOff(lm, LEARN_LED_ID, LEARN_FUNCTION_ID)
        m2 == lockLed(m1, CLOSE_LED_ID, WIFI_ENABLE_FUNCTION_ID)
    IN IF ~wifiOn
       THEN IF flash
            THEN ledToggle(m2, CLOSE_LED_ID, WIFI_ENABLE_FUNCTION_ID)
            ELSE m2
       ELSE lockLed(m2, CLOSE_LED_ID, WIFI_DISABLE_FUNCTION_ID)

ReleaseLeds(lm) ==
    LET m1 == ledOff(lm, LEARN_LED_ID, LEARN_FUNCTION_ID)
        m2 == releaseLed(m1, CLOSE_LED_ID, WIFI_ENABLE_FUNCTION_ID)
        m3 == ledOff(m2, CLOSE_LED_ID, WIFI_ENABLE_FUNCTION_ID)
        m4 == releaseLed(m3, LEARN_LED_ID, FACTORY_RESET_FUNCTION_ID)
        m5 == ledOff(m4, LEARN_LED_ID, FACTORY_RESET_FUNCTION_ID)
    IN releaseLed(m5, CLOSE_LED_ID, WIFI_DISABLE_FUNCTION_ID)

\* The button is a pin the environment drives; it is not kept down for
\* more than MaxHold milliseconds.
ButtonLevels ==
    IF timerMillis = 0 \/ Elapsed(millis, timerMillis) <= MaxHold
    THEN {LOW, HIGH}
    ELSE {LOW}

\* Variant of ButtonIgnored: a press during a pending task starts the timer.
ButtonTimedWhilePending ==
    /\ triggerDeviceLearn \/ triggerFactoryReset
    /\ lastRelease' = NoRelease
    /\ timerMillis' = IF timerMillis = 0 THEN millis ELSE timerMillis
    /\ UNCHANGED <<ledMan, millis, subTimerMillis,
                   triggerFactoryReset, triggerDeviceLearn, triggerWifiIsOn>>

ButtonIgnored ==
    /\ triggerDeviceLearn \/ triggerFactoryReset
    /\ lastRelease' = NoRelease
    /\ UNCHANGED <<ledMan, millis, timerMillis, subTimerMillis,
                   triggerFactoryReset, triggerDeviceLearn, triggerWifiIsOn>>

HeldFeedbackOnly ==
    /\ ~triggerDeviceLearn /\ ~triggerFactoryReset
    /\ LET timer == IF timerMillis = 0 THEN millis ELSE timerMillis
           elapsedMillis == IF timerMillis = 0 THEN 0
                            ELSE Elapsed(millis, timerMillis)
           feedback == HoldFeedback(elapsedMillis, settings, triggerWifiIsOn)
           flash == Elapsed(millis, subTimerMillis) > 50
           fr == HoldFactoryLeds(ledMan, gpio)
       IN /\ timerMillis' = timer
          /\ ledMan' =
                CASE feedback = "FactoryReset" -> fr.lm
                  [] feedback = "WifiToggle" ->
                        HoldWifiLeds(ledMan, triggerWifiIsOn, flash)
                  [] feedback = "Learn" ->
                        ledOn(ledMan, LEARN_LED_ID, LEARN_FUNCTION_ID)
                  [] OTHER -> ledMan
          /\ gpio' =
                [(IF feedback = "FactoryReset" THEN fr.io ELSE gpio)
                    EXCEPT ![PAIR_BTN_PIN] = HIGH]
          /\ millis' = IF feedback = "FactoryReset"
                       THEN ULong(millis + 4 * 50) ELSE millis
          /\ subTimerMillis' =
                IF feedback = "WifiToggle" /\ ~triggerWifiIsOn /\ flash
                THEN millis ELSE subTimerMillis
    /\ lastRelease' = NoRelease
    /\ UNCHANGED <<triggerFactoryReset, triggerDeviceLearn, triggerWifiIsOn>>

\* Variant: learning is committed as soon as the hold is long enough.
HeldCommitsLearn ==
    /\ ~triggerDeviceLearn /\ ~triggerFactoryReset
    /\ LET timer == IF timerMillis = 0 THEN millis ELSE timerMillis
           elapsedMillis == IF timerMillis = 0 THEN 0
                            ELSE Elapsed(millis, timerMillis)
       IN /\ timerMillis' = timer
          /\ triggerDeviceLearn' =
                (HoldFeedback(elapsedMillis, settings, triggerWifiIsOn)
                    = "Learn")
    /\ gpio' = [gpio EXCEPT ![PAIR_BTN_PIN] = HIGH]
    /\ lastRelease' = NoRelease
    /\ UNCHANGED <<ledMan, millis, subTimerMillis, triggerFactoryReset,
                   triggerWifiIsOn>>

\* Variant: the WiFi toggle is committed as soon as the hold is long enough.
HeldCommitsWifiToggle ==
    /\ ~triggerDeviceLearn /\ ~triggerFactoryReset
    /\ LET timer == IF timerMillis = 0 THEN millis ELSE timerMillis
           elapsedMillis == IF timerMillis = 0 THEN 0
                            ELSE Elapsed(millis, timerMillis)
       IN /\ timerMillis' = timer
          /\ triggerWifiIsOn' =
                IF HoldFeedback(elapsedMillis, settings, triggerWifiIsOn)
                    = "WifiToggle"
                THEN ~triggerWifiIsOn ELSE triggerWifiIsOn
    /\ gpio' = [gpio EXCEPT ![PAIR_BTN_PIN] = HIGH]
    /\ lastRelease' = NoRelease
    /\ UNCHANGED <<ledMan, millis, subTimerMillis, triggerDeviceLearn,
                   triggerFactoryReset>>

\* Variant: the factory reset is committed as soon as the hold is long enough.
HeldCommitsFactoryReset ==
    /\ ~triggerDeviceLearn /\ ~triggerFactoryReset
    /\ LET timer == IF timerMillis = 0 THEN millis ELSE timerMillis
           elapsedMillis == IF timerMillis = 0 THEN 0
                            ELSE Elapsed(millis, timerMillis)
       IN /\ timerMillis' = timer
          /\ triggerFactoryReset' =
                (HoldFeedback(elapsedMillis, settings, triggerWifiIsOn)
                    = "FactoryReset")
    /\ gpio' = [gpio EXCEPT ![PAIR_BTN_PIN] = HIGH]
    /\ lastRelease' = NoRelease
    /\ UNCHANGED <<ledMan, millis, subTimerMillis, triggerDeviceLearn,
                   triggerWifiIsOn>>

ButtonHeld == HeldFeedbackOnly

ButtonUp ==
    /\ ~triggerDeviceLearn /\ ~triggerFactoryReset
    /\ gpio' = [gpio EXCEPT ![PAIR_BTN_PIN] = LOW]
    /\ IF timerMillis > 0
       THEN LET elapsedMillis == Elapsed(millis, timerMillis)
                trigger == ReleaseTrigger(elapsedMillis, settings,
                                          triggerWifiIsOn)
            IN /\ triggerFactoryReset' = (trigger = "FactoryReset")
               /\ triggerWifiIsOn' = IF trigger = "WifiToggle"
                                     THEN ~triggerWifiIsOn
                                     ELSE triggerWifiIsOn
               /\ triggerDeviceLearn' = (trigger = "Learn")
               /\ timerMillis' = 0
               /\ ledMan' = ReleaseLeds(ledMan)
               /\ lastRelease' =
                    [observed |-> TRUE, elapsed |-> elapsedMillis,
                     enabled |-> triggerWifiIsOn, active |-> isWifiIsOn,
                     committed |->
                        {t \in {"FactoryReset"} : triggerFactoryReset'}
                        \cup {t \in {"Learn"} : triggerDeviceLearn'}
                        \cup {t \in {"WifiToggle"} :
                                triggerWifiIsOn' # triggerWifiIsOn}]
       ELSE /\ lastRelease' = NoRelease
            /\ UNCHANGED <<ledMan, timerMillis, triggerFactoryReset,
                           triggerDeviceLearn, triggerWifiIsOn>>
    /\ UNCHANGED <<millis, subTimerMillis>>

DoHandleButtonPresses ==
    /\ pc = "doHandleButtonPresses"
    /\ pc' = NextPc(pc)
    /\ \/ ButtonIgnored /\ \E level \in {LOW, HIGH} :
                              gpio' = [gpio EXCEPT ![PAIR_BTN_PIN] = level]
       \/ ButtonHeld /\ HIGH \in ButtonLevels
       \/ ButtonUp
    /\ UNCHANGED <<lastCall, ticks, settings, eeprom, onState, seenDevices,
                   seenRssis, isLearning, isScanning, isWifiIsOn,
                   scanningWatchdogMillis, btScanWDExpos, timmerMillis,
                   firstRun, wifiOnStartMillis, learnStartMillis,
                   lastPage, scanActive, world, lastPurge,
                   lastSwitch, callback>>
    /\ lastHold' =
            IF /\ ~triggerDeviceLearn /\ ~triggerFactoryReset
               /\ gpio'[PAIR_BTN_PIN] = HIGH
            THEN [held |-> TRUE,
                  elapsed |-> IF timerMillis = 0 THEN 0
                              ELSE Elapsed(millis, timerMillis),
                  active |-> isWifiIsOn]
            ELSE NoHold
    /\ Observed(NoScan, {})

(***************************************************************************)
(* doBTScan and doPurgeOldSeenDevices.                                     *)
(***************************************************************************)
\* The scan watchdog ceiling of doBTScan.
WatchdogMillis == 15000

\* Variant of WdExpired: the watchdog fires on reaching the ceiling.
WdExpiredAtCeiling(now, since) == Elapsed(now, since) >= WatchdogMillis

\* bool wdExpired = millis() - scanningWatchdogMillis > 15000UL
WdExpired(now, since) == Elapsed(now, since) > WatchdogMillis

ExpiredAtLimit(now, seenAt, s) == Elapsed(now, seenAt) >= s.maxNotSeenMillis

Expired(now, seenAt, s) == Elapsed(now, seenAt) > s.maxNotSeenMillis

\* Variants of doPurgeOldSeenDevices with one slip each.
doPurgeNothing(devices, rssis, wifiOnMillis, now, s) ==
    [devices |-> devices, rssis |-> rssis]

doPurgeIgnoresWifi(devices, rssis, wifiOnMillis, now, s) ==
    LET purgeList == {id \in DOMAIN devices : Expired(now, devices[id], s)}
    IN [devices |-> [id \in (DOMAIN devices) \ purgeList |-> devices[id]],
        rssis |-> [id \in (DOMAIN rssis) \ purgeList |-> rssis[id]]]

doPurgeKeepsRssi(devices, rssis, wifiOnMillis, now, s) ==
    IF wifiOnMillis # 0
    THEN [devices |-> [id \in DOMAIN devices |->
                            ULong(devices[id] + wifiOnMillis)],
          rssis |-> rssis]
    ELSE LET purgeList == {id \in DOMAIN devices :
                                Expired(now, devices[id], s)}
         IN [devices |-> [id \in (DOMAIN devices) \ purgeList |-> devices[id]],
             rssis |-> rssis]

\* doPurgeOldSeenDevices(wifiOnMillis) at clock value now: the two maps
\* after the call.
doPurgeOldSeenDevices(devices, rssis, wifiOnMillis, now, s) ==
    IF Cardinality(DOMAIN devices) > 0
    THEN IF wifiOnMillis # 0
         THEN [devices |-> [id \in DOMAIN devices |->
                                ULong(devices[id] + wifiOnMillis)],
               rssis |-> rssis]
         ELSE LET purgeList == {id \in DOMAIN devices :
                                    Expired(now, devices[id], s)}
              IN [devices |-> [id \in (DOMAIN devices) \ purgeList |->
                                    devices[id]],
                  rssis |-> [id \in (DOMAIN rssis) \ purgeList |-> rssis[id]]]
    ELSE [devices |-> devices, rssis |-> rssis]

\* Variant of ScanSuspended: doBTScan takes no notice of the WiFi.
ScanNeverSuspended == FALSE

\* doBTScan leaves the radio and the sighting maps alone while WiFi is on.
ScanSuspended == isWifiIsOn

\* Variant of ExpiryCounted: the first start of a scan is counted too.
ExpiryCountedAtFirst(restart, first) == restart

\* if (wdExpired || firstRun) { if (!firstRun) btScanWDExpos ++; ...
ExpiryCounted(restart, first) == restart /\ ~first

\* Variant of ScanDue: only a finished scan is followed by a new one.
ScanDueWhenIdle(scanning, wdExpired) == ~scanning

\* if (!isScanning || wdExpired)
ScanDue(scanning, wdExpired) == ~scanning \/ wdExpired

DoBTScan ==
    /\ pc = "doBTScan"
    /\ pc' = NextPc(pc)
    /\ LET wdExpired == WdExpired(millis, scanningWatchdogMillis)
           start == ScanDue(isScanning, wdExpired)
           restart == start /\ (wdExpired \/ firstRun)
           now == IF restart THEN ULong(millis + 500) ELSE millis
           wifiOnMillis == IF wifiOnStartMillis = 0 THEN 0
                           ELSE Elapsed(now, wifiOnStartMillis)
           purged == doPurgeOldSeenDevices(seenDevices, seenRssis,
                                          wifiOnMillis, now, settings)
       IN IF ~ScanSuspended
          THEN /\ btScanWDExpos' = IF ExpiryCounted(restart, firstRun)
                                   THEN btScanWDExpos + 1 ELSE btScanWDExpos
               /\ firstRun' = IF restart THEN FALSE ELSE firstRun
               /\ isScanning' = IF start THEN TRUE ELSE isScanning
               /\ scanActive' = IF start THEN TRUE ELSE scanActive
               /\ scanningWatchdogMillis' =
                    IF start THEN now ELSE scanningWatchdogMillis
               /\ millis' = now
               /\ wifiOnStartMillis' = 0
               /\ seenDevices' = purged.devices
               /\ seenRssis' = purged.rssis
               /\ lastPurge' =
                    [ran |-> TRUE, wifiOnMillis |-> wifiOnMillis,
                     erased |-> (DOMAIN seenDevices) \ (DOMAIN purged.devices),
                     bumped |-> {id \in (DOMAIN seenDevices)
                                        \cap (DOMAIN purged.devices) :
                                    purged.devices[id] # seenDevices[id]}]
          ELSE /\ wifiOnStartMillis' = IF wifiOnStartMillis = 0 THEN millis
                                       ELSE wifiOnStartMillis
               /\ scanningWatchdogMillis' = millis
               /\ lastPurge' = NoPurge
               /\ UNCHANGED <<btScanWDExpos, firstRun, isScanning, scanActive,
                              millis, seenDevices, seenRssis>>
    /\ UNCHANGED <<ledMan, gpio, lastCall, ticks, settings, eeprom, onState,
                   triggerFactoryReset, triggerDeviceLearn, triggerWifiIsOn,
                   isLearning, isWifiIsOn, timerMillis, subTimerMillis,
                   timmerMillis, learnStartMillis, lastPage,
                   world, lastRelease, lastSwitch, lastHold, callback>>
    /\ Observed(NoScan, {})

(***************************************************************************)
(* handleBTScanResults: the completion callback of the BLE scan.  results  *)
(* maps each device the scan found to its RSSI.                            *)
(***************************************************************************)
\* Variant of Recorded: a device at the threshold counts as in range.
RecordedAtThreshold(btAddress, rssi, s, learning) ==
    /\ rssi >= s.maxNearRssi
    /\ \/ learning
       \/ s.pairedAddress = UNPAIRED
       \/ s.pairedAddress = btAddress

Recorded(btAddress, rssi, s, learning) ==
    /\ rssi > s.maxNearRssi
    /\ \/ learning
       \/ s.pairedAddress = UNPAIRED
       \/ s.pairedAddress = btAddress

handleBTScanResults(results) ==
    LET hits == {id \in DOMAIN results :
                    Recorded(id, results[id], settings, isLearning)}
    IN /\ seenDevices' = [id \in (DOMAIN seenDevices) \cup hits |->
                            IF id \in hits THEN millis ELSE seenDevices[id]]
       /\ seenRssis' = [id \in (DOMAIN seenRssis) \cup hits |->
                            IF id \in hits THEN results[id] ELSE seenRssis[id]]
       /\ isScanning' = FALSE
       /\ Observed([ran |-> TRUE, results |-> results], hits)

ScanCallback ==
    /\ scanActive
    /\ scanActive' = FALSE
    /\ UNCHANGED <<ledMan, gpio, lastCall, millis, ticks, pc, settings, eeprom,
                   onState, triggerFactoryReset, triggerDeviceLearn,
                   triggerWifiIsOn, isLearning, isWifiIsOn,
                   scanningWatchdogMillis, btScanWDExpos, timerMillis,
                   subTimerMillis, timmerMillis, firstRun, wifiOnStartMillis,
                   learnStartMillis, lastPage, world, lastRelease,
                   lastPurge,
                   lastSwitch, lastHold, callback>>
    /\ \E found \in SUBSET world.beacons :
        \E results \in [found -> world.rssis] : handleBTScanResults(results)

(***************************************************************************)
(* handleBTScanResults as the BLE driver calls it on the ESP-32: from its  *)
(* own task, with nothing that keeps it apart from loop().  It enters with *)
(* the results, writes seenDevices[id] and then seenRssis[id] for each     *)
(* result it records, and returns after isScanning = false; the functions  *)
(* of loop() run between any two of these steps.  An access of loop() to   *)
(* the maps while the callback is inside is a data race on std::map: the   *)
(* function sees the maps as they are at that point, or the firmware       *)
(* panics and reboots.                                                     *)
(***************************************************************************)
RaceUnchanged ==
    UNCHANGED <<ledMan, gpio, lastCall, millis, ticks, pc, settings, eeprom,
                onState, triggerFactoryReset, triggerDeviceLearn,
                triggerWifiIsOn, isLearning, isWifiIsOn,
                scanningWatchdogMillis, btScanWDExpos, timerMillis,
                subTimerMillis, timmerMillis, firstRun, wifiOnStartMillis,
                learnStartMillis, lastPage, world, lastRelease, lastPurge,
                lastSwitch, lastHold>>

CallbackEnters ==
    /\ scanActive /\ ~callback.busy
    /\ scanActive' = FALSE
    /\ \E found \in SUBSET world.beacons :
        \E results \in [found -> world.rssis] :
            /\ callback' = [busy |-> TRUE, todo |-> results, half |-> ""]
            /\ RaceUnchanged
            /\ UNCHANGED <<seenDevices, seenRssis, isScanning>>
            /\ Observed([ran |-> TRUE, results |-> results], {})

CallbackWritesSeen ==
    /\ callback.busy /\ callback.half = ""
    /\ \E id \in DOMAIN callback.todo :
        IF Recorded(id, callback.todo[id], settings, isLearning)
        THEN /\ seenDevices' = MapPut(seenDevices, id, millis)
             /\ callback' = [callback EXCEPT !.half = id]
             /\ RaceUnchanged
             /\ UNCHANGED <<seenRssis, isScanning, scanActive>>
             /\ Observed(NoScan, {id})
        ELSE /\ callback' = [callback EXCEPT !.todo = MapErase(@, id)]
             /\ RaceUnchanged
             /\ UNCHANGED <<seenDevices, seenRssis, isScanning, scanActive>>
             /\ Observed(NoScan, {})

CallbackWritesRssi ==
    /\ callback.busy /\ callback.half # ""
    /\ seenRssis' = MapPut(seenRssis, callback.half,
                           callback.todo[callback.half])
    /\ callback' = [callback EXCEPT !.todo = MapErase(@, callback.half),
                                    !.half = ""]
    /\ RaceUnchanged
    /\ UNCHANGED <<seenDevices, isScanning, scanActive>>
    /\ Observed(NoScan, {})

CallbackReturns ==
    /\ callback.busy /\ callback.half = "" /\ DOMAIN callback.todo = {}
    /\ isScanning' = FALSE
    /\ callback' = CallbackIdle
    /\ RaceUnchanged
    /\ UNCHANGED <<seenDevices, seenRssis, scanActive>>
    /\ Observed(NoScan, {})

\* The functions of loop() that read or write the sighting maps.
MapAccessors ==
    {"doBTScan", "doHandleOnOffSwitching", "doCheckForCloseDevice",
     "doCheckLearnTask"}

(***************************************************************************)
(* doHandleOnOffSwitching (with doDeterminePairedDeviceProximity) and      *)
(* doCheckForCloseDevice.                                                  *)
(***************************************************************************)
\* Variant of doDeterminePairedDeviceProximity: an unpaired switch follows
\* every device it sees.
ProximityOfAnyDevice(devices, s) ==
    IF s.pairedAddress = UNPAIRED THEN DOMAIN devices # {}
    ELSE MapCount(devices, s.pairedAddress) > 0

\* settings.setOnState(seenDevices.count(pairedAddress) > 0)
doDeterminePairedDeviceProximity(devices, s) ==
    MapCount(devices, s.pairedAddress) > 0

NoWrite == -1

\* Variants of RelayWrite: the pin is never switched off; the pin is written
\* on every call.
RelayWriteNeverOff(state, level) ==
    IF state /\ level = LOW THEN HIGH ELSE NoWrite

RelayWriteAlways(state, level) == IF state THEN HIGH ELSE LOW

\* The level doHandleOnOffSwitching writes to the relay pin, if it writes.
RelayWrite(state, level) ==
    IF state /\ level = LOW THEN HIGH
    ELSE IF ~state /\ level = HIGH THEN LOW
    ELSE NoWrite

DoHandleOnOffSwitching ==
    /\ pc = "doHandleOnOffSwitching"
    /\ pc' = NextPc(pc)
    /\ onState' = doDeterminePairedDeviceProximity(seenDevices, settings)
    /\ LET level == RelayWrite(onState', gpio[CONTROLLED_DEVICE_PIN])
       IN /\ gpio' = IF level = NoWrite THEN gpio
                     ELSE [gpio EXCEPT ![CONTROLLED_DEVICE_PIN] = level]
          /\ lastSwitch' = [ran |-> TRUE,
                            before |-> gpio[CONTROLLED_DEVICE_PIN],
                            state |-> onState',
                            wrote |-> level # NoWrite]
    /\ UNCHANGED <<ledMan, lastCall, millis, ticks, settings, eeprom,
                   seenDevices, seenRssis, triggerFactoryReset,
                   triggerDeviceLearn, triggerWifiIsOn, isLearning, isScanning,
                   isWifiIsOn, scanningWatchdogMillis, btScanWDExpos,
                   timerMillis, subTimerMillis, timmerMillis, firstRun,
                   wifiOnStartMillis, learnStartMillis, lastPage,
                   scanActive, world, lastRelease, lastPurge, lastHold, callback>>
    /\ Observed(NoScan, {})

\* Variant of IsClose: a record at the threshold is not close.
IsCloseAboveThreshold(rssis, s) ==
    \E id \in DOMAIN rssis : rssis[id] > s.closeRssi

\* for (pair : seenRssis) if (pair.second >= settings.getCloseRssi())
IsClose(rssis, s) ==
    \E id \in DOMAIN rssis : rssis[id] >= s.closeRssi

DoCheckForCloseDevice ==
    /\ pc = "doCheckForCloseDevice"
    /\ pc' = NextPc(pc)
    /\ LET isClose == IsClose(seenRssis, settings)
       IN ledMan' = IF isClose
                    THEN ledOn(ledMan, CLOSE_LED_ID, CLOSE_FUNCTION_ID)
                    ELSE ledOff(ledMan, CLOSE_LED_ID, CLOSE_FUNCTION_ID)
    /\ UNCHANGED <<gpio, lastCall, millis, ticks, settings, eeprom, onState,
                   seenDevices, seenRssis, triggerFactoryReset,
                   triggerDeviceLearn, triggerWifiIsOn, isLearning, isScanning,
                   isWifiIsOn, scanningWatchdogMillis, btScanWDExpos,
                   timerMillis, subTimerMillis, timmerMillis, firstRun,
                   wifiOnStartMillis, learnStartMillis, lastPage,
                   scanActive, world, lastRelease, lastPurge,
                   lastSwitch, lastHold, callback>>
    /\ Observed(NoScan, {})

LedManTick ==
    /\ pc = "ledMan.loop"
    /\ pc' = NextPc(pc)
    /\ ledMan' = LedManLoop(ledMan, gpio).lm
    /\ gpio' = LedManLoop(ledMan, gpio).io
    /\ UNCHANGED <<lastCall, millis, ticks, settings, eeprom, onState,
                   seenDevices, seenRssis, triggerFactoryReset,
                   triggerDeviceLearn, triggerWifiIsOn, isLearning, isScanning,
                   isWifiIsOn, scanningWatchdogMillis, btScanWDExpos,
                   timerMillis, subTimerMillis, timmerMillis, firstRun,
                   wifiOnStartMillis, learnStartMillis, lastPage,
                   scanActive, world, lastRelease, lastPurge,
                   lastSwitch, lastHold, callback>>
    /\ Observed(NoScan, {})

(***************************************************************************)
(* doCheckFactoryReset: the confirmation flash, Settings::factoryDefault() *)
(* and ESP.restart(); the next state is the first loop() of the new boot.  *)
(* saveSettings() returns EEPROM.commit(), which may fail.                 *)
(***************************************************************************)
Restart(nv) ==
    /\ ledMan' = SetupLedMan
    /\ gpio' = SetupGpio
    /\ millis' = BootMillis
    /\ ticks' = 0
    /\ pc' = LoopOrder[1]
    /\ settings' = nv
    /\ eeprom' = nv
    /\ onState' = FALSE
    /\ seenDevices' = EmptyMap
    /\ seenRssis' = EmptyMap
    /\ triggerFactoryReset' = FALSE
    /\ triggerDeviceLearn' = FALSE
    /\ triggerWifiIsOn' = FALSE
    /\ isLearning' = FALSE
    /\ isScanning' = FALSE
    /\ isWifiIsOn' = FALSE
    /\ scanningWatchdogMillis' = 0
    /\ btScanWDExpos' = 0
    /\ timerMillis' = 0
    /\ subTimerMillis' = 0
    /\ timmerMillis' = 0
    /\ firstRun' = TRUE
    /\ wifiOnStartMillis' = 0
    /\ learnStartMillis' = 0
    /\ lastPage' = "none"
    /\ scanActive' = FALSE
    /\ lastRelease' = NoRelease
    /\ lastPurge' = NoPurge
    /\ lastSwitch' = NoSwitch
    /\ awakeMillis' = 0
    /\ seenAwake' = EmptyMap
    /\ lastScan' = NoScan
    /\ lastPost' = NoPost
    /\ lastHold' = NoHold
    /\ callback' = CallbackIdle
    /\ uptime' = BootUptime(BootMillis)
    /\ UNCHANGED <<lastCall, world>>

\* while (millis() - startMillis < 3500UL) { ...; delay(100UL); }: the clock
\* value at which the confirmation flash ends.
RECURSIVE ResetFlashEnd(_, _)
ResetFlashEnd(now, startMillis) ==
    IF Elapsed(now, startMillis) < 3500
    THEN ResetFlashEnd(ULong(now + 100), startMillis)
    ELSE now

DoCheckFactoryReset ==
    /\ pc = "doCheckFactoryReset"
    /\ IF triggerFactoryReset
       THEN /\ Elapsed(ResetFlashEnd(millis, millis), millis) >= 3500
            /\ \E ok \in BOOLEAN :
                    Restart(IF ok THEN FactorySettings ELSE eeprom)
       ELSE /\ pc' = NextPc(pc)
            /\ UNCHANGED <<ledMan, gpio, lastCall, millis, ticks, settings,
                           eeprom, onState, seenDevices, seenRssis,
                           triggerFactoryReset, triggerDeviceLearn,
                           triggerWifiIsOn, isLearning, isScanning, isWifiIsOn,
                           scanningWatchdogMillis, btScanWDExpos, timerMillis,
                           subTimerMillis, timmerMillis, firstRun,
                           wifiOnStartMillis, learnStartMillis,
                           lastPage, scanActive, world,
                           lastRelease, lastPurge, lastSwitch, lastHold, callback>>
            /\ Observed(NoScan, {})

(***************************************************************************)
(* doCheckLearnTask.                                                       *)
(***************************************************************************)
\* The ids the sighting maps can hold, in std::string order.
BeaconOrder == <<"b1", "b2", "b3">>

\* seenRssis[id]: operator[] yields 0 for a missing key (and inserts it).
RssiAt(rssis, id) == IF MapCount(rssis, id) > 0 THEN rssis[id] ELSE 0

\* Variant of NearestScan: a later record of equal RSSI replaces the choice.
RECURSIVE NearestScanLastTie(_, _, _, _, _)
NearestScanLastTie(devices, rssis, i, nearestId, nearestRssi) ==
    IF i > Len(BeaconOrder)
    THEN nearestId
    ELSE LET id == BeaconOrder[i] IN
         IF /\ MapCount(devices, id) > 0
            /\ (nearestId = "" \/ RssiAt(rssis, id) >= nearestRssi)
         THEN NearestScanLastTie(devices, rssis, i + 1, id, RssiAt(rssis, id))
         ELSE NearestScanLastTie(devices, rssis, i + 1, nearestId, nearestRssi)

RECURSIVE NearestScan(_, _, _, _, _)
NearestScan(devices, rssis, i, nearestId, nearestRssi) ==
    IF i > Len(BeaconOrder)
    THEN nearestId
    ELSE LET id == BeaconOrder[i] IN
         IF /\ MapCount(devices, id) > 0
            /\ (nearestId = "" \/ RssiAt(rssis, id) > nearestRssi)
         THEN NearestScan(devices, rssis, i + 1, id, RssiAt(rssis, id))
         ELSE NearestScan(devices, rssis, i + 1, nearestId, nearestRssi)

Nearest(devices, rssis) == NearestScan(devices, rssis, 1, "", -999)

\* Variant of LearnWindowOver: the window ends on reaching its length.
LearnWindowOverAtLimit(now, started, s) ==
    Elapsed(now, started) >= s.learnDurationMillis

\* millis() - learnStartMillis > settings.getLearnDurationMillis()
LearnWindowOver(now, started, s) ==
    Elapsed(now, started) > s.learnDurationMillis

DoCheckLearnTask ==
    /\ pc = "doCheckLearnTask"
    /\ pc' = NextPc(pc)
    /\ IF triggerDeviceLearn
       THEN LET started == IF isLearning THEN learnStartMillis ELSE millis
                m1 == IF isLearning THEN ledMan
                      ELSE ledOn(ledMan, LEARN_LED_ID, LEARN_FUNCTION_ID)
                nearestId == Nearest(seenDevices, seenRssis)
            IN /\ learnStartMillis' = started
               /\ IF LearnWindowOver(millis, started, settings)
                  THEN /\ seenRssis' =
                            [id \in (DOMAIN seenRssis) \cup (DOMAIN seenDevices)
                                |-> RssiAt(seenRssis, id)]
                       /\ IF settings.pairedAddress # nearestId
                          THEN /\ settings' = [settings EXCEPT
                                                !.pairedAddress = nearestId]
                               /\ \E ok \in BOOLEAN :
                                    eeprom' = IF ok THEN settings' ELSE eeprom
                          ELSE UNCHANGED <<settings, eeprom>>
                       /\ isLearning' = FALSE
                       /\ triggerDeviceLearn' = FALSE
                       /\ ledMan' = ledOff(m1, LEARN_LED_ID, LEARN_FUNCTION_ID)
                  ELSE /\ isLearning' = TRUE
                       /\ ledMan' = m1
                       /\ UNCHANGED <<seenRssis, settings, eeprom,
                                      triggerDeviceLearn>>
       ELSE UNCHANGED <<learnStartMillis, seenRssis, settings, eeprom,
                        isLearning, triggerDeviceLearn, ledMan>>
    /\ UNCHANGED <<gpio, lastCall, millis, ticks, onState, seenDevices,
                   triggerFactoryReset, triggerWifiIsOn, isScanning, isWifiIsOn,
                   scanningWatchdogMillis, btScanWDExpos, timerMillis,
                   subTimerMillis, timmerMillis, firstRun, wifiOnStartMillis,
                   lastPage, scanActive, world,
                   lastRelease, lastPurge,
                   lastSwitch, lastHold, callback>>
    /\ Observed(NoScan, {})

(***************************************************************************)
(* doHandleNetworkTasks: doActivateDeactivateWiFi, then, with the WiFi on, *)
(* web.handleClient(), which may serve the POST of a web client:           *)
(* handleSettingsPost, then handleSettingsPage with its result message (a  *)
(* GET only renders the page and changes nothing).                         *)
(***************************************************************************)
FormFields ==
    {"apPwd", "maxNearRssi", "closeRssi", "maxNotSeenMillis",
     "learnDurationMillis", "triggerLearnMillis", "triggerFactoryMillis",
     "triggerWiFiOnMillis", "triggerWiFiOffMillis"}

\* Variant of Posted: the three gesture thresholds are not taken from the
\* form.
PostedKeepsThresholds(s, form) ==
    [f \in DOMAIN s |->
        IF f \in FormFields \ {"triggerLearnMillis", "triggerWiFiOnMillis",
                                "triggerFactoryMillis"}
        THEN form[f] ELSE s[f]]

\* The settings after the setters handleSettingsPost calls for a form.
Posted(s, form) ==
    [f \in DOMAIN s |-> IF f \in FormFields THEN form[f] ELSE s[f]]

SUCCESSFUL == "successful"
FAILED == "failed"
REBOOT == "reboot"

DoHandleNetworkTasks ==
    /\ pc = "doHandleNetworkTasks"
    /\ pc' = NextPc(pc)
    /\ LET turnOn == triggerWifiIsOn /\ ~isWifiIsOn
           flashing == triggerWifiIsOn /\ isWifiIsOn
           turnOff == ~triggerWifiIsOn /\ isWifiIsOn
           flash == flashing /\ Elapsed(millis, timmerMillis) > 50
           m1 == CASE turnOn ->
                        lockLed(ledMan, CLOSE_LED_ID, WIFI_ENABLE_FUNCTION_ID)
                   [] flash ->
                        ledToggle(ledMan, CLOSE_LED_ID, WIFI_ENABLE_FUNCTION_ID)
                   [] turnOff ->
                        ledOff(releaseLed(ledMan, CLOSE_LED_ID,
                                          WIFI_ENABLE_FUNCTION_ID),
                               CLOSE_LED_ID, WIFI_ENABLE_FUNCTION_ID)
                   [] OTHER -> ledMan
           wifiOn == IF turnOn THEN TRUE ELSE IF turnOff THEN FALSE
                                              ELSE isWifiIsOn
       IN /\ ledMan' = m1
          /\ isWifiIsOn' = wifiOn
          /\ timmerMillis' = IF flash THEN millis ELSE timmerMillis
          /\ millis' = IF turnOff THEN ULong(millis + 2000) ELSE millis
          /\ IF wifiOn
             THEN \/ /\ UNCHANGED <<settings, eeprom, triggerWifiIsOn, lastPage>>
                     /\ lastPost' = NoPost
                  \/ \E form \in world.forms, ok \in BOOLEAN :
                        LET s2 == Posted(settings, form)
                            needSave == s2 # settings
                            needReboot == s2.apPwd # settings.apPwd
                        IN /\ settings' = s2
                           /\ eeprom' = IF needSave /\ ok THEN s2 ELSE eeprom
                           /\ triggerWifiIsOn' =
                                IF needSave /\ needReboot THEN FALSE
                                ELSE triggerWifiIsOn
                           /\ lastPage' =
                                IF ~needSave THEN ""
                                ELSE IF needReboot THEN REBOOT
                                ELSE IF ok THEN SUCCESSFUL ELSE FAILED
                           /\ lastPost' =
                                [ran |-> TRUE,
                                 changed |-> {f \in FormFields :
                                                form[f] # settings[f]},
                                 saves |-> IF needSave THEN 1 ELSE 0,
                                 ok |-> needSave /\ ok]
             ELSE /\ UNCHANGED <<settings, eeprom, triggerWifiIsOn, lastPage>>
                  /\ lastPost' = NoPost
    /\ UNCHANGED <<gpio, lastCall, ticks, onState, seenDevices, seenRssis,
                   triggerFactoryReset, triggerDeviceLearn, isLearning,
                   isScanning, scanningWatchdogMillis, btScanWDExpos,
                   timerMillis, subTimerMillis, firstRun, wifiOnStartMillis,
                   learnStartMillis, scanActive, world, lastRelease, lastPurge,
                   lastSwitch, lastHold, callback>>
    /\ Stamped(NoScan, {})

FwNext ==
    \/ Tick
    \/ LedManTick
    \/ DoBTScan
    \/ ScanCallback
    \/ DoHandleOnOffSwitching
    \/ DoCheckForCloseDevice
    \/ DoHandleButtonPresses
    \/ DoCheckFactoryReset
    \/ DoCheckLearnTask
    \/ DoHandleNetworkTasks

\* The panic of an access that meets the callback inside the maps; the
\* device reboots with what the flash holds.
RacePanic ==
    /\ callback.busy /\ pc \in MapAccessors
    /\ Restart(eeprom)

\* loop() with the callback in a task of its own.
RaceNext ==
    \/ Tick
    \/ LedManTick
    \/ DoBTScan
    \/ CallbackEnters
    \/ CallbackWritesSeen
    \/ CallbackWritesRssi
    \/ CallbackReturns
    \/ RacePanic
    \/ DoHandleOnOffSwitching
    \/ DoCheckForCloseDevice
    \/ DoHandleButtonPresses
    \/ DoCheckFactoryReset
    \/ DoCheckLearnTask
    \/ DoHandleNetworkTasks

(***************************************************************************)
(* LedSpec: the LedMan class driven by arbitrary clients.  Any caller of   *)
(* LedCallers may issue any operation on any LED of LedLeds at any time;   *)
(* lastCall records the operation that produced the current state.         *)
(***************************************************************************)
MaxPriority == 2

LedCallers == {"A", "B", "C"}

LedLeds == {LEARN_LED_ID}

LedPriorities == (1 .. MaxPriority) \cup {IntMax}

PinOf(ledId) == IF ledId = LEARN_LED_ID THEN LEARN_LED_PIN ELSE CLOSE_LED_PIN

Call(op, ledId, caller) == [op |-> op, led |-> ledId, caller |-> caller]

LedInit ==
    /\ ledMan = NewLedMan
    /\ gpio = SetupGpio
    /\ lastCall = Call("new", "", "")
    /\ FirmwareBooted(FactorySettings, NoWorld)

LedAddLed ==
    \E l \in LedLeds :
        /\ ledMan' = addLed(ledMan, PinOf(l), l)
        /\ lastCall' = Call("addLed", l, "")
        /\ UNCHANGED <<gpio, fwVars>>

LedSetCallerPriority ==
    \E c \in LedCallers, p \in LedPriorities :
        /\ ledMan' = setCallerPriority(ledMan, c, p)
        /\ lastCall' = Call("setCallerPriority", "", c)
        /\ UNCHANGED <<gpio, fwVars>>

LedLockLed ==
    \E l \in LedLeds, c \in LedCallers :
        /\ ledMan' = lockLed(ledMan, l, c)
        /\ lastCall' = Call("lockLed", l, c)
        /\ UNCHANGED <<gpio, fwVars>>

LedReleaseLed ==
    \E l \in LedLeds, c \in LedCallers :
        /\ ledMan' = releaseLed(ledMan, l, c)
        /\ lastCall' = Call("releaseLed", l, c)
        /\ UNCHANGED <<gpio, fwVars>>

LedLedOn ==
    \E l \in LedLeds, c \in LedCallers :
        /\ ledMan' = ledOn(ledMan, l, c)
        /\ lastCall' = Call("ledOn", l, c)
        /\ UNCHANGED <<gpio, fwVars>>

LedLedOff ==
    \E l \in LedLeds, c \in LedCallers :
        /\ ledMan' = ledOff(ledMan, l, c)
        /\ lastCall' = Call("ledOff", l, c)
        /\ UNCHANGED <<gpio, fwVars>>

LedLedToggle ==
    \E l \in LedLeds, c \in LedCallers :
        /\ ledMan' = ledToggle(ledMan, l, c)
        /\ lastCall' = Call("ledToggle", l, c)
        /\ UNCHANGED <<gpio, fwVars>>

LedLoop ==
    /\ ledMan' = LedManLoop(ledMan, gpio).lm
    /\ gpio' = LedManLoop(ledMan, gpio).io
    /\ lastCall' = Call("loop", "", "")
    /\ UNCHANGED fwVars

LedNext ==
    \/ LedAddLed
    \/ LedSetCallerPriority
    \/ LedLockLed
    \/ LedReleaseLed
    \/ LedLedOn
    \/ LedLedOff
    \/ LedLedToggle
    \/ LedLoop

LedSpec == LedInit /\ [][LedNext]_vars

(***************************************************************************)
(* FrameSpec: the LedMan of the firmware after setup() (both LEDs          *)
(* registered, the priorities of the firmware), called in any order by     *)
(* two of the firmware's callers for either LED.                           *)
(***************************************************************************)
FrameCallers == {CLOSE_FUNCTION_ID, WIFI_ENABLE_FUNCTION_ID}

FrameLeds == {LEARN_LED_ID, CLOSE_LED_ID}

FrameInit ==
    /\ ledMan = SetupLedMan
    /\ gpio = SetupGpio
    /\ lastCall = Call("new", "", "")
    /\ FirmwareBooted(FactorySettings, NoWorld)

FrameLockLed ==
    \E l \in FrameLeds, c \in FrameCallers :
        /\ ledMan' = lockLed(ledMan, l, c)
        /\ lastCall' = Call("lockLed", l, c)
        /\ UNCHANGED <<gpio, fwVars>>

FrameReleaseLed ==
    \E l \in FrameLeds, c \in FrameCallers :
        /\ ledMan' = releaseLed(ledMan, l, c)
        /\ lastCall' = Call("releaseLed", l, c)
        /\ UNCHANGED <<gpio, fwVars>>

FrameLedOn ==
    \E l \in FrameLeds, c \in FrameCallers :
        /\ ledMan' = ledOn(ledMan, l, c)
        /\ lastCall' = Call("ledOn", l, c)
        /\ UNCHANGED <<gpio, fwVars>>

FrameLedOff ==
    \E l \in FrameLeds, c \in FrameCallers :
        /\ ledMan' = ledOff(ledMan, l, c)
        /\ lastCall' = Call("ledOff", l, c)
        /\ UNCHANGED <<gpio, fwVars>>

FrameLedToggle ==
    \E l \in FrameLeds, c \in FrameCallers :
        /\ ledMan' = ledToggle(ledMan, l, c)
        /\ lastCall' = Call("ledToggle", l, c)
        /\ UNCHANGED <<gpio, fwVars>>

FrameNext ==
    \/ FrameLockLed
    \/ FrameReleaseLed
    \/ FrameLedOn
    \/ FrameLedOff
    \/ FrameLedToggle
    \/ LedLoop

FrameSpec == FrameInit /\ [][FrameNext]_vars

(***************************************************************************)
(* ButtonSpec: the firmware with no beacon in range and the button as its  *)
(* environment.  The stored settings are any of                            *)
(* ButtonConfigs: short durations, in the order of the shipped defaults    *)
(* (learn < wifiOn < factory) or with the learn and wifiOn thresholds      *)
(* exchanged (wifiOn < learn < factory).                                   *)
(***************************************************************************)
Timing(learn, wifiOn, factory, wifiOff) ==
    [FactorySettings EXCEPT !.triggerLearnMillis = learn,
                            !.triggerWiFiOnMillis = wifiOn,
                            !.triggerFactoryMillis = factory,
                            !.triggerWiFiOffMillis = wifiOff,
                            !.learnDurationMillis = 1,
                            !.maxNotSeenMillis = 2]

ShippedOrder == Timing(1, 3, 4, 1)

ExchangedOrder == Timing(3, 1, 4, 2)

ButtonConfigs == {ShippedOrder, ExchangedOrder}

FormOf(s, pwd) == [f \in FormFields |-> IF f = "apPwd" THEN pwd ELSE s[f]]

ButtonTicks == 8

ButtonWorld ==
    [beacons |-> {}, rssis |-> {}, forms |-> {}, steps |-> {1},
     maxTicks |-> ButtonTicks]

ButtonInit == \E nv \in ButtonConfigs : Booted(nv, ButtonWorld)

ButtonSpec == ButtonInit /\ [][FwNext]_vars

(***************************************************************************)
(* PresenceSpec: the firmware with beacons in range and the button; no web *)
(* client.                                                                 *)
(***************************************************************************)
PresenceConfig == [Timing(1, 1, 30000, 0) EXCEPT !.pairedAddress = UNPAIRED]

PresenceTicks == 4

PresenceWorld ==
    [beacons |-> {"b1", "b2"}, rssis |-> {-70}, forms |-> {},
     steps |-> {1}, maxTicks |-> PresenceTicks]

PresenceInit == Booted(PresenceConfig, PresenceWorld)

PresenceSpec == PresenceInit /\ [][FwNext]_vars

(***************************************************************************)
(* LearnSpec: an unpaired switch with two beacons in range at two signal   *)
(* strengths; any press of the button starts a learn, none reaches WiFi.   *)
(***************************************************************************)
LearnConfig ==
    [Timing(0, 30000, 30001, 0) EXCEPT !.pairedAddress = UNPAIRED,
                                       !.learnDurationMillis = 0]

LearnTicks == 1

LearnWorld ==
    [beacons |-> {"b1", "b2"}, rssis |-> {-70, -60},
     forms |-> {}, steps |-> {1}, maxTicks |-> LearnTicks]

LearnInit == Booted(LearnConfig, LearnWorld)

LearnSpec == LearnInit /\ [][FwNext]_vars

(***************************************************************************)
(* LearnLiveSpec: a switch that boots unpaired or paired with b1, with two *)
(* beacons in range at one signal strength; loop() runs for ever and the   *)
(* clock advances as long as the world lets it.                            *)
(***************************************************************************)
LearnLiveConfigs == {LearnConfig, [LearnConfig EXCEPT !.pairedAddress = "b1"]}

LearnLiveTicks == 1

LearnLiveWorld ==
    [beacons |-> {"b1", "b2"}, rssis |-> {-60},
     forms |-> {}, steps |-> {1}, maxTicks |-> LearnLiveTicks]

LearnLiveInit == \E nv \in LearnLiveConfigs : Booted(nv, LearnLiveWorld)

LearnLiveSpec ==
    LearnLiveInit /\ [][FwNext]_vars /\ WF_vars(FwNext) /\ SF_vars(Tick)

(***************************************************************************)
(* WatchdogSpec: no beacon in range and a clock that also advances in      *)
(* steps of half the watchdog ceiling, so that a scan whose completion     *)
(* callback stays away outlives the ceiling; the gesture thresholds are    *)
(* out of the reach of the holds.                                          *)
(***************************************************************************)
WatchdogConfig == Timing(30000, 30000, 30001, 30000)

WatchdogTicks == 6

WatchdogWorld ==
    [beacons |-> {}, rssis |-> {}, forms |-> {},
     steps |-> {1, WatchdogMillis \div 2}, maxTicks |-> WatchdogTicks]

WatchdogInit == Booted(WatchdogConfig, WatchdogWorld)

WatchdogSpec == WatchdogInit /\ [][FwNext]_vars

(***************************************************************************)
(* TrackSpec: a switch that boots paired with beacon b1, or unpaired, with *)
(* b1 and a second beacon coming and going, in range or at the threshold;  *)
(* the button can start a learn, the WiFi threshold is out of the reach of *)
(* the holds.                                                              *)
(***************************************************************************)
TrackConfig == [Timing(1, 30000, 30001, 0) EXCEPT !.pairedAddress = "b1"]

TrackConfigs == {TrackConfig, [TrackConfig EXCEPT !.pairedAddress = UNPAIRED]}

TrackTicks == 3

TrackWorld ==
    [beacons |-> {"b1", "b2"}, rssis |-> {-80, -70}, forms |-> {},
     steps |-> {1}, maxTicks |-> TrackTicks]

TrackInit == \E nv \in TrackConfigs : Booted(nv, TrackWorld)

TrackSpec == TrackInit /\ [][FwNext]_vars

(***************************************************************************)
(* PortalSpec: the firmware with the button and a web client that posts    *)
(* the settings form with a new access-point password; no beacon in range. *)
(***************************************************************************)
PortalConfig == Timing(1, 1, 3, 3)

PortalTicks == 4

PortalWorld ==
    [beacons |-> {}, rssis |-> {},
     forms |-> {FormOf(PortalConfig, "secret")}, steps |-> {1},
     maxTicks |-> PortalTicks]

PortalInit == Booted(PortalConfig, PortalWorld)

PortalSpec == PortalInit /\ [][FwNext]_vars

(***************************************************************************)
(* ScanLiveSpec: one beacon at the edge of the range, a clock that         *)
(* advances by half the watchdog ceiling or more between two runs of       *)
(* loop(), and the gesture thresholds out of the reach of the holds.       *)
(* loop() keeps running and the clock keeps advancing; the completion      *)
(* callback of a scan may never come.                                      *)
(***************************************************************************)
ScanLiveConfig == Timing(60000, 60000, 60001, 60000)

ScanLiveTicks == 4

ScanLiveWorld ==
    [beacons |-> {"b1"}, rssis |-> {-70}, forms |-> {},
     steps |-> {WatchdogMillis \div 2, 10000}, maxTicks |-> ScanLiveTicks]

ScanLiveInit == Booted(ScanLiveConfig, ScanLiveWorld)

ScanLiveSpec ==
    ScanLiveInit /\ [][FwNext]_vars /\ WF_vars(FwNext) /\ SF_vars(Tick)

(***************************************************************************)
(* WrapSpec: a clock that passes its wrap-around.  The unsigned long of    *)
(* millis() is modelled with the width of ULongWrap; the clock advances    *)
(* by 10 s or by 50 s between two runs of loop(), so that a scan and a     *)
(* learning window that start after the long step end past the wrap.  A    *)
(* hold of any length asks for learning, and the window is the 10 s of     *)
(* the factory settings.                                                   *)
(***************************************************************************)
WrapConfig ==
    [Timing(1, 65000, 65001, 65000) EXCEPT !.learnDurationMillis = 10000]

WrapTicks == 4

WrapWorld ==
    [beacons |-> {}, rssis |-> {}, forms |-> {}, steps |-> {10000, 50000},
     maxTicks |-> WrapTicks]

WrapInit == Booted(WrapConfig, WrapWorld)

WrapSpec == WrapInit /\ [][FwNext]_vars

(***************************************************************************)
(* CloseSpec: an unpaired switch and one beacon that is seen in range,     *)
(* at the close threshold or below it; records expire after 2 ms.          *)
(***************************************************************************)
CloseConfig ==
    [Timing(30000, 30000, 30001, 30000) EXCEPT !.pairedAddress = UNPAIRED]

CloseTicks == 3

CloseWorld ==
    [beacons |-> {"b1", "b2"},
     rssis |-> {CloseConfig.closeRssi - 1, CloseConfig.closeRssi},
     forms |-> {}, steps |-> {1}, maxTicks |-> CloseTicks]

CloseInit == Booted(CloseConfig, CloseWorld)

CloseSpec == CloseInit /\ [][FwNext]_vars

(***************************************************************************)
(* OrderSpec: the switch as shipped (factorySettings), a button that can   *)
(* be held for 10 s between two runs of loop(), and web clients that post  *)
(* gesture thresholds: one form with the WiFi threshold below the learn    *)
(* threshold, one with the learn threshold above the factory threshold.    *)
(***************************************************************************)
OrderTicks == 3

OrderForms ==
    {[FormOf(FactorySettings, FactorySettings.apPwd)
        EXCEPT !.triggerWiFiOnMillis = 1500],
     [FormOf(FactorySettings, FactorySettings.apPwd)
        EXCEPT !.triggerLearnMillis = 30000, !.triggerFactoryMillis = 5000]}

OrderWorld ==
    [beacons |-> {}, rssis |-> {}, forms |-> OrderForms,
     steps |-> {1, FactorySettings.triggerWiFiOnMillis + 1},
     maxTicks |-> OrderTicks]

OrderInit == Booted(FactorySettings, OrderWorld)

OrderSpec == OrderInit /\ [][FwNext]_vars

(***************************************************************************)
(* RaceSpec: an unpaired switch with two beacons in range and the scan     *)
(* callback running in the BLE task; the gesture thresholds are out of the *)
(* reach of the holds.                                                     *)
(***************************************************************************)
RaceConfig ==
    [Timing(30000, 30000, 30001, 30000) EXCEPT !.pairedAddress = UNPAIRED]

RaceTicks == 1

RaceWorld ==
    [beacons |-> {"b1", "b2"}, rssis |-> {-70}, forms |-> {}, steps |-> {1},
     maxTicks |-> RaceTicks]

RaceInit == Booted(RaceConfig, RaceWorld)

RaceSpec == RaceInit /\ [][RaceNext]_vars

(***************************************************************************)
(* FlashSpec: an unpaired switch with one beacon close by (RSSI above      *)
(* closeRssi), the button, and a WiFi threshold within the reach of the    *)
(* holds; no web client.                                                   *)
(***************************************************************************)
FlashConfig == [Timing(1, 1, 30000, 3) EXCEPT !.pairedAddress = UNPAIRED]

FlashTicks == 3

FlashWorld ==
    [beacons |-> {"b1"}, rssis |-> {-40}, forms |-> {}, steps |-> {1},
     maxTicks |-> FlashTicks]

FlashInit == Booted(FlashConfig, FlashWorld)

FlashSpec == FlashInit /\ [][FwNext]_vars

(***************************************************************************)
(* SettingsSpec: the firmware with the button and a web client that posts  *)
(* the settings form with a new access-point password, with a new close    *)
(* RSSI, or with both; every saveSettings() may fail.                      *)
(***************************************************************************)
SettingsConfig == Timing(1, 1, 3, 0)

SettingsTicks == 3

SettingsForms ==
    {FormOf(SettingsConfig, "secret"),
     [FormOf(SettingsConfig, SettingsConfig.apPwd) EXCEPT !.closeRssi = -40],
     [FormOf(SettingsConfig, "secret") EXCEPT !.closeRssi = -40]}

SettingsWorld ==
    [beacons |-> {}, rssis |-> {}, forms |-> SettingsForms, steps |-> {1},
     maxTicks |-> SettingsTicks]

SettingsInit == Booted(SettingsConfig, SettingsWorld)

SettingsSpec == SettingsInit /\ [][FwNext]_vars

(***************************************************************************)
(* Vocabulary of the LED claims.                                           *)
(***************************************************************************)
HasDemand(c, l) == <<c, l>> \in DOMAIN ledMan.callerStates

HasLock(c, l) == <<c, l>> \in DOMAIN ledMan.locks

Level(c, l) == ledMan.callerStates[<<c, l>>]

HasPriority(c) == c \in DOMAIN ledMan.priorities

Demanders(l) == {c \in LedCallers : HasDemand(c, l)}

RankedDemanders(l) == {c \in Demanders(l) : HasPriority(c)}

Foremost(l) ==
    {c \in RankedDemanders(l) :
        \A d \in RankedDemanders(l) : ledMan.priorities[c] <= ledMan.priorities[d]}

Output(l) == gpio[ledMan.registeredLeds[l]]

\* H outranks L, L demands on, and nobody else holds a demand on the LED.
Pair(H, L, l) ==
    /\ H # L
    /\ l \in DOMAIN ledMan.registeredLeds
    /\ HasPriority(H) /\ HasPriority(L)
    /\ ledMan.priorities[H] < ledMan.priorities[L]
    /\ HasDemand(L, l) /\ Level(L, l) = HIGH
    /\ Demanders(l) \subseteq {H, L}

(***************************************************************************)
(* C1: after every LedMan::loop(), each registered LED's output is the     *)
(* level of a caller that has the smallest priority number among the       *)
(* callers holding a demand on it, and is off when nobody holds a demand.  *)
(***************************************************************************)
C1_LoopResolvesToForemost ==
    lastCall.op = "loop" =>
        \A l \in DOMAIN ledMan.registeredLeds :
            IF Demanders(l) = {}
            THEN Output(l) = LOW
            ELSE \E c \in Foremost(l) : Output(l) = Level(c, l)

\* {A larger number, locked off; B smaller number, on} resolves to on.
C1_Witness ==
    /\ lastCall.op = "loop"
    /\ LEARN_LED_ID \in DOMAIN ledMan.registeredLeds
    /\ HasLock("A", LEARN_LED_ID) /\ HasDemand("A", LEARN_LED_ID)
    /\ Level("A", LEARN_LED_ID) = LOW
    /\ HasDemand("B", LEARN_LED_ID) /\ Level("B", LEARN_LED_ID) = HIGH
    /\ HasPriority("A") /\ HasPriority("B")
    /\ ledMan.priorities["B"] < ledMan.priorities["A"]
    /\ ~HasDemand("C", LEARN_LED_ID)
    /\ Output(LEARN_LED_ID) = HIGH

(***************************************************************************)
(* C2: for H outranking L on one LED, L demanding on:                      *)
(*  - H locked with level off: the LED resolves to off;                    *)
(*  - H without a lock calls ledOff: H's demand is removed and the next    *)
(*    loop() resolves the LED to on;                                       *)
(*  - H locked sets off and releases: H's demand is removed and the next   *)
(*    loop() resolves the LED to on.                                       *)
(***************************************************************************)
C2_LockedOffWins ==
    \A H \in LedCallers, L \in LedCallers, l \in LedLeds :
        /\ lastCall.op = "loop"
        /\ Pair(H, L, l)
        /\ HasLock(H, l) /\ HasDemand(H, l) /\ Level(H, l) = LOW
        => Output(l) = LOW

C2_UnlockedOffIsSilence ==
    \A H \in LedCallers, L \in LedCallers, l \in LedLeds :
        /\ lastCall = Call("ledOff", l, H)
        /\ ~HasLock(H, l)
        => /\ ~HasDemand(H, l)
           /\ (Pair(H, L, l) /\ LedLoop => Output(l)' = HIGH)

C2_OffThenReleaseHandsOver ==
    \A H \in LedCallers, L \in LedCallers, l \in LedLeds :
        /\ lastCall = Call("ledOff", l, H)
        /\ HasLock(H, l)
        /\ Pair(H, L, l)
        /\ ledMan' = releaseLed(ledMan, l, H)
        => /\ ~HasDemand(H, l)'
           /\ ~HasLock(H, l)'
           /\ LedManLoop(ledMan', gpio').io[ledMan.registeredLeds[l]] = HIGH

C2_LockAndSilence ==
    /\ []C2_LockedOffWins
    /\ [][C2_UnlockedOffIsSilence]_vars
    /\ [][C2_OffThenReleaseHandsOver]_vars

\* L (B) is back on the LED after H (A) set off and released its lock.
C2_Witness ==
    /\ lastCall.op = "loop"
    /\ Pair("A", "B", LEARN_LED_ID)
    /\ HasLock("A", LEARN_LED_ID) /\ HasDemand("A", LEARN_LED_ID)
    /\ Level("A", LEARN_LED_ID) = LOW
    /\ Output(LEARN_LED_ID) = LOW

(***************************************************************************)
(* Vocabulary of the gesture claims.  lastRelease is what the run of       *)
(* doHandleButtonPresses that has just finished saw and did; it is read in *)
(* the state right after that run.                                         *)
(***************************************************************************)
JustReleased == pc = NextPc("doHandleButtonPresses") /\ lastRelease.observed

SpecOrder(s) ==
    /\ s.triggerWiFiOnMillis < s.triggerLearnMillis
    /\ s.triggerLearnMillis < s.triggerFactoryMillis

\* C3: on a release with network mode inactive and the thresholds ordered
\* wifiOn < learn < factory, a hold shorter than the WiFi threshold commits
\* nothing, a hold between the WiFi and the learn threshold commits exactly
\* WifiToggle, and a hold longer than the factory threshold commits exactly
\* FactoryReset.
C3_ReleaseOutcomes ==
    (JustReleased /\ ~lastRelease.active /\ SpecOrder(settings)) =>
        /\ lastRelease.elapsed < settings.triggerWiFiOnMillis
                => lastRelease.committed = {}
        /\ (/\ lastRelease.elapsed > settings.triggerWiFiOnMillis
            /\ lastRelease.elapsed < settings.triggerLearnMillis)
                => lastRelease.committed = {"WifiToggle"}
        /\ lastRelease.elapsed > settings.triggerFactoryMillis
                => lastRelease.committed = {"FactoryReset"}

C3_Witness ==
    /\ JustReleased /\ ~lastRelease.active /\ SpecOrder(settings)
    /\ lastRelease.elapsed > settings.triggerFactoryMillis
    /\ lastRelease.committed = {"FactoryReset"}

\* C4: a release observed while network mode is active (isWifiIsOn) commits
\* neither Learn nor FactoryReset, whatever the hold duration.
C4_NoLearnNoResetWhileNetworkActive ==
    (JustReleased /\ lastRelease.active) =>
        lastRelease.committed \cap {"Learn", "FactoryReset"} = {}

\* C5 as stated: with network mode inactive and wifiOn < learn < factory, every
\* hold with learn <= elapsed < factory commits Learn.
C5_LearnBetweenLearnAndFactory ==
    (/\ JustReleased /\ ~lastRelease.active /\ SpecOrder(settings)
     /\ lastRelease.elapsed >= settings.triggerLearnMillis
     /\ lastRelease.elapsed < settings.triggerFactoryMillis)
        => lastRelease.committed = {"Learn"}

\* C5: on a release with network mode inactive, Learn is committed exactly
\* when learn <= elapsed, elapsed <= wifiOn and elapsed <= factory; with
\* wifiOn < learn < factory a hold with learn <= elapsed <= factory commits
\* WifiToggle.
C5_LearnBelowWifiThreshold ==
    (JustReleased /\ ~lastRelease.active) =>
        /\ lastRelease.committed = {"Learn"} <=>
                /\ lastRelease.elapsed >= settings.triggerLearnMillis
                /\ lastRelease.elapsed <= settings.triggerWiFiOnMillis
                /\ lastRelease.elapsed <= settings.triggerFactoryMillis
        /\ (/\ SpecOrder(settings)
            /\ lastRelease.elapsed >= settings.triggerLearnMillis
            /\ lastRelease.elapsed <= settings.triggerFactoryMillis)
                => lastRelease.committed = {"WifiToggle"}

C5_Witness ==
    /\ JustReleased /\ ~lastRelease.active
    /\ settings.triggerLearnMillis < settings.triggerWiFiOnMillis
    /\ lastRelease.elapsed > settings.triggerLearnMillis
    /\ lastRelease.elapsed <= settings.triggerWiFiOnMillis
    /\ lastRelease.committed = {"Learn"}

\* C6 as stated: a release with elapsed >= factory (equality included) commits
\* FactoryReset, whatever the network mode.
C6_ResetAtOrAboveThreshold ==
    (JustReleased /\ lastRelease.elapsed >= settings.triggerFactoryMillis)
        => lastRelease.committed = {"FactoryReset"}

\* C6: a release commits FactoryReset exactly when the network-enable flag
\* is off and elapsed > factory (strictly); it then commits nothing else.
C6_ResetAboveThresholdNetworkOff ==
    JustReleased =>
        /\ "FactoryReset" \in lastRelease.committed <=>
                /\ ~lastRelease.enabled
                /\ lastRelease.elapsed > settings.triggerFactoryMillis
        /\ "FactoryReset" \in lastRelease.committed
                => lastRelease.committed = {"FactoryReset"}

C6_Witness ==
    /\ JustReleased /\ ~lastRelease.enabled
    /\ settings.triggerLearnMillis < settings.triggerFactoryMillis
    /\ settings.triggerWiFiOnMillis < settings.triggerFactoryMillis
    /\ lastRelease.elapsed = settings.triggerFactoryMillis + 1
    /\ lastRelease.committed = {"FactoryReset"}

\* C7: a press cycle commits at most one of FactoryReset, Learn and
\* WifiToggle, it does so only in the run that observes the release, and the
\* press timer is clear after every release.
C7_AfterRelease ==
    JustReleased =>
        /\ Cardinality(lastRelease.committed) <= 1
        /\ timerMillis = 0

C7_CommitOnlyOnRelease ==
    (\/ (triggerFactoryReset' /\ ~triggerFactoryReset)
     \/ (triggerDeviceLearn' /\ ~triggerDeviceLearn)
     \/ (pc = "doHandleButtonPresses" /\ triggerWifiIsOn' # triggerWifiIsOn))
        => /\ pc = "doHandleButtonPresses"
           /\ timerMillis > 0
           /\ gpio'[PAIR_BTN_PIN] = LOW
           /\ lastRelease'.observed

\* C7: both parts, the state after a release and the steps that may commit.
C7_OneCommitPerPress ==
    []C7_AfterRelease /\ [][C7_CommitOnlyOnRelease]_vars

C7_Witness ==
    /\ JustReleased /\ timerMillis = 0
    /\ lastRelease.committed = {"WifiToggle"}
    /\ lastRelease.enabled

(***************************************************************************)
(* Vocabulary of the presence claims.  A purge is the step of doBTScan     *)
(* taken while network mode is inactive; it runs at the clock value the    *)
(* step leaves in millis, with the suspended time doBTScan computes.       *)
(***************************************************************************)
PurgeStep == pc = "doBTScan" /\ pc' = NextPc("doBTScan") /\ ~isWifiIsOn

SuspendedElapsed ==
    IF wifiOnStartMillis = 0 THEN 0 ELSE Elapsed(millis', wifiOnStartMillis)

\* C8: a purge with no suspended time keeps, untouched, every record whose
\* last sighting is at most maxNotSeenMillis old, and removes every older
\* record from both the sighting map and the RSSI map.
C8_PurgeStep ==
    (PurgeStep /\ SuspendedElapsed = 0) =>
        \A id \in DOMAIN seenDevices :
            seenDevices[id] <= millis' =>
                IF millis' - seenDevices[id] <= settings.maxNotSeenMillis
                THEN /\ id \in DOMAIN seenDevices'
                     /\ id \in DOMAIN seenRssis'
                     /\ seenDevices'[id] = seenDevices[id]
                     /\ seenRssis'[id] = seenRssis[id]
                ELSE /\ id \notin DOMAIN seenDevices'
                     /\ id \notin DOMAIN seenRssis'

\* C8: every purge step with no suspended time keeps and removes by age.
C8_PurgeByAge == [][C8_PurgeStep]_vars

C8_Witness ==
    /\ pc = NextPc("doBTScan")
    /\ lastPurge.ran /\ lastPurge.wifiOnMillis = 0
    /\ lastPurge.erased = {"b1"}
    /\ "b2" \in DOMAIN seenDevices
    /\ millis - seenDevices["b2"] = settings.maxNotSeenMillis

\* C9: a purge with suspended time greater than zero deletes no record, adds
\* exactly the suspended time to every record's last-sighting timestamp
\* (unsigned arithmetic) and leaves every stored RSSI unchanged.
C9_PurgeStep ==
    (PurgeStep /\ SuspendedElapsed > 0) =>
        /\ DOMAIN seenDevices' = DOMAIN seenDevices
        /\ \A id \in DOMAIN seenDevices :
                seenDevices'[id] = ULong(seenDevices[id] + SuspendedElapsed)
        /\ seenRssis' = seenRssis

\* C9: every purge step with suspended time only shifts the timestamps.
C9_SuspensionShifts == [][C9_PurgeStep]_vars

C9_Witness ==
    /\ pc = NextPc("doBTScan")
    /\ lastPurge.ran /\ lastPurge.wifiOnMillis > 0
    /\ lastPurge.bumped = {"b1", "b2"}
    /\ lastPurge.erased = {}
    /\ DOMAIN seenRssis = {"b1", "b2"}

\* C10: the sighting map and the RSSI map have the same key set in every
\* state, whatever recordings, purges and learning completions came before.
C10_SameKeys == DOMAIN seenDevices = DOMAIN seenRssis

C10_Witness ==
    /\ settings.pairedAddress = "b1"
    /\ lastPurge.ran /\ lastPurge.erased = {"b2"}
    /\ DOMAIN seenDevices = {"b1"}
    /\ DOMAIN seenRssis = {"b1"}

(***************************************************************************)
(* Vocabulary of the learning claims.                                      *)
(***************************************************************************)
Rank(id) == CHOOSE i \in 1..Len(BeaconOrder) : BeaconOrder[i] = id

Loudest(devices, rssis) ==
    {id \in DOMAIN devices :
        \A other \in DOMAIN devices : rssis[id] >= rssis[other]}

LearnCompletes ==
    /\ pc = "doCheckLearnTask" /\ pc' = NextPc("doCheckLearnTask")
    /\ triggerDeviceLearn /\ ~triggerDeviceLearn'

\* C11 (the selection): over a table with records, the nearest search yields
\* an id of maximal RSSI, and of the ids of maximal RSSI the one that comes
\* first in string order; being a function of the table, it yields the same
\* id every time it is evaluated on that table.
C11_NearestOfTable ==
    DOMAIN seenDevices # {} =>
        LET nearestId == Nearest(seenDevices, seenRssis)
        IN /\ nearestId \in Loudest(seenDevices, seenRssis)
           /\ \A id \in Loudest(seenDevices, seenRssis) :
                    Rank(nearestId) <= Rank(id)

\* C11 (its use): the learning session that ends over a table with records
\* pairs with that id.
C11_LearnPairsNearest ==
    (LearnCompletes /\ DOMAIN seenDevices # {}) =>
        /\ settings'.pairedAddress \in Loudest(seenDevices, seenRssis)
        /\ \A id \in Loudest(seenDevices, seenRssis) :
                Rank(settings'.pairedAddress) <= Rank(id)

\* C11: the nearest-device selection at the end of learning returns an id of
\* maximal RSSI, the lexicographically smallest among equals.
C11_NearestIsLoudestSmallest ==
    []C11_NearestOfTable /\ [][C11_LearnPairsNearest]_vars

C11_Witness ==
    /\ pc = NextPc("doCheckLearnTask")
    /\ settings.pairedAddress = "b2"
    /\ DOMAIN seenDevices = {"b1", "b2"}
    /\ seenRssis["b1"] < seenRssis["b2"]

(***************************************************************************)
(* Vocabulary of the scan claims.                                          *)
(***************************************************************************)
ScanStep == pc = "doBTScan" /\ pc' = NextPc("doBTScan")

\* C12 (the expiry): a run of doBTScan with network mode inactive that finds
\* a scan started at scanningWatchdogMillis still without its completion
\* restarts the scan and adds exactly 1 to the watchdog counter when more
\* than 15000 ms have passed since the start, and does neither at 15000 ms
\* or less.
C12_ExpiryStep ==
    (ScanStep /\ ~isWifiIsOn /\ ~firstRun /\ isScanning
        /\ scanningWatchdogMillis <= millis) =>
        IF millis - scanningWatchdogMillis > 15000
        THEN /\ btScanWDExpos' = btScanWDExpos + 1
             /\ scanActive' /\ isScanning'
             /\ scanningWatchdogMillis' = millis'
        ELSE /\ btScanWDExpos' = btScanWDExpos
             /\ scanningWatchdogMillis' = scanningWatchdogMillis

\* C12 (the counter): the watchdog counter increases only by such an expiry,
\* by exactly 1, and the expiry restarts the measurement at the clock value
\* it leaves, so the next increase is more than 15000 ms away.
C12_CounterStep ==
    btScanWDExpos' > btScanWDExpos =>
        /\ ScanStep /\ ~isWifiIsOn
        /\ millis - scanningWatchdogMillis > 15000
        /\ btScanWDExpos' = btScanWDExpos + 1
        /\ scanningWatchdogMillis' = millis'

\* C12: a scan without completion is restarted at the first run of doBTScan
\* more than 15000 ms after its start, counted exactly once per expiry.
C12_WatchdogCountsExpiries ==
    [][C12_ExpiryStep]_vars /\ [][C12_CounterStep]_vars

C12_Witness ==
    /\ pc = NextPc("doBTScan")
    /\ btScanWDExpos = 2
    /\ scanningWatchdogMillis = millis
    /\ isScanning

(***************************************************************************)
(* Vocabulary of the relay claims.                                         *)
(***************************************************************************)
SwitchStep ==
    pc = "doHandleOnOffSwitching" /\ pc' = NextPc("doHandleOnOffSwitching")

Relay == gpio[CONTROLLED_DEVICE_PIN] = HIGH

TargetPresent == settings.pairedAddress \in DOMAIN seenDevices

\* C13 (the write): doHandleOnOffSwitching writes the relay pin exactly when
\* the onState it derived differs from the level the pin had.
C13_WriteOnDifference ==
    lastSwitch.ran =>
        (lastSwitch.wrote <=> (lastSwitch.state # (lastSwitch.before = HIGH)))

\* C13 (the frame): a tick that finds the presence of the pairing target as
\* the tick before derived it writes nothing to the relay pin.
C13_NoWriteStep ==
    (SwitchStep /\ lastSwitch.ran /\ (TargetPresent <=> lastSwitch.state)) =>
        /\ ~lastSwitch'.wrote
        /\ gpio' = gpio

\* C13: the relay pin is written only on a tick whose derived onState differs
\* from the relay level; ticks with unchanged presence write nothing.
C13_RelayWrittenOnChange ==
    []C13_WriteOnDifference /\ [][C13_NoWriteStep]_vars

C13_Witness ==
    /\ pc = NextPc("doHandleOnOffSwitching")
    /\ lastSwitch.ran /\ ~lastSwitch.wrote
    /\ lastSwitch.state /\ lastSwitch.before = HIGH
    /\ ticks > 0

\* C14 (step): the on/off switching step leaves onState and the relay both
\* true when the pairing target is a key of the sighting table, and both
\* false when it is not.
C14_SwitchStep ==
    SwitchStep =>
        /\ onState' <=> TargetPresent'
        /\ Relay' <=> TargetPresent'

\* C14: after the switching step of every tick, onState and the relay are
\* true exactly when the pairing target's id is in the sighting table.
C14_RelayFollowsTable == [][C14_SwitchStep]_vars

C14_Witness ==
    /\ pc = NextPc("doHandleOnOffSwitching")
    /\ lastSwitch.ran /\ lastSwitch.wrote /\ ~lastSwitch.state
    /\ ~onState /\ ~Relay /\ ~TargetPresent
    /\ DOMAIN seenDevices = {}

\* The time awake since the last recorded sighting of the pairing target.
TargetAge == awakeMillis - seenAwake[settings.pairedAddress]

\* C15 (step): with network mode inactive and a pairing target that has been
\* sighted, the switching step of a tick leaves the relay on when the last
\* recorded sighting of the target is at most maxNotSeenMillis old, and off
\* when it is older; so the relay is on after the tick that follows a
\* sighting and off after every tick from the expiry to the next sighting.
C15_SwitchStep ==
    (SwitchStep /\ ~isWifiIsOn /\ wifiOnStartMillis = 0
        /\ settings.pairedAddress \in DOMAIN seenAwake) =>
        IF TargetAge <= settings.maxNotSeenMillis THEN Relay' ELSE ~Relay'

\* C15: the relay is on after the tick that follows an in-range sighting of
\* the learned beacon, and off after the ticks that follow more than
\* maxNotSeenMillis without one.
C15_RelayFollowsSightings == [][C15_SwitchStep]_vars

C15_Witness ==
    /\ pc = NextPc("doHandleOnOffSwitching")
    /\ settings.pairedAddress = "b1"
    /\ "b1" \in DOMAIN seenAwake
    /\ TargetAge > settings.maxNotSeenMillis
    /\ lastSwitch.ran /\ lastSwitch.wrote /\ ~Relay

\* C16 (step): the switching step of a tick taken while the pairing target
\* is the "no target" sentinel leaves onState false and the relay off.
C16_SwitchStep ==
    (SwitchStep /\ settings.pairedAddress = UNPAIRED) =>
        /\ ~onState'
        /\ ~Relay'

\* C16 (state): the relay is off in every state with the sentinel as target.
C16_OffWhileUnpaired == settings.pairedAddress = UNPAIRED => ~Relay

\* C16: while the pairing target is the sentinel, no sequence of sightings
\* turns the relay on; it is off after every tick.
C16_UnpairedRelayStaysOff == []C16_OffWhileUnpaired /\ [][C16_SwitchStep]_vars

C16_Witness ==
    /\ pc = NextPc("doHandleOnOffSwitching")
    /\ settings.pairedAddress = UNPAIRED
    /\ DOMAIN seenDevices = {"b1", "b2"}
    /\ lastSwitch.ran /\ ~lastSwitch.wrote /\ ~Relay

(***************************************************************************)
(* Vocabulary of the recording claims.                                     *)
(***************************************************************************)
SameRecord(id) ==
    /\ (id \in DOMAIN seenDevices') <=> (id \in DOMAIN seenDevices)
    /\ (id \in DOMAIN seenRssis') <=> (id \in DOMAIN seenRssis)
    /\ id \in DOMAIN seenDevices => seenDevices'[id] = seenDevices[id]
    /\ id \in DOMAIN seenRssis => seenRssis'[id] = seenRssis[id]

\* C17 (step): of the results (id, rssi) a callback delivers, those with
\* rssi > maxNearRssi and a target that is the sentinel, a learning session
\* in progress or id the target become the record of id (stamped with the
\* clock, holding the rssi); every other id keeps the record it had or none.
C17_CallbackStep ==
    lastScan'.ran =>
        \A id \in world.beacons \cup DOMAIN seenDevices \cup DOMAIN seenRssis :
            IF /\ id \in DOMAIN lastScan'.results
               /\ lastScan'.results[id] > settings.maxNearRssi
               /\ \/ settings.pairedAddress = UNPAIRED
                  \/ isLearning
                  \/ id = settings.pairedAddress
            THEN /\ id \in DOMAIN seenDevices' /\ id \in DOMAIN seenRssis'
                 /\ seenDevices'[id] = millis
                 /\ seenRssis'[id] = lastScan'.results[id]
            ELSE SameRecord(id)

\* C17: a scan result is recorded if and only if its rssi is strictly above
\* maxNearRssi and the target is the sentinel, or learning is active, or the
\* id is the target; otherwise both maps are unchanged.
C17_RecordedIffNearAndTracked == [][C17_CallbackStep]_vars

C17_Witness ==
    /\ lastScan.ran
    /\ DOMAIN lastScan.results = {"b1", "b2"}
    /\ lastScan.results["b1"] = settings.maxNearRssi
    /\ lastScan.results["b2"] > settings.maxNearRssi
    /\ settings.pairedAddress = "b1" /\ ~isLearning
    /\ "b1" \in DOMAIN seenDevices /\ seenDevices["b1"] < millis
    /\ "b2" \notin DOMAIN seenDevices

\* C18 (doBTScan): a run of doBTScan with network mode active starts no scan,
\* runs no purge and leaves both maps as they are.
C18_ScanStep ==
    (ScanStep /\ isWifiIsOn) =>
        /\ scanActive' = scanActive /\ isScanning' = isScanning
        /\ ~lastPurge'.ran
        /\ seenDevices' = seenDevices /\ seenRssis' = seenRssis

\* C18 (the tick path): while network mode is active no step of loop()
\* deletes or re-stamps a record; only a scan callback touches the maps.
C18_LoopStep ==
    (isWifiIsOn /\ ~lastScan'.ran) =>
        /\ seenDevices' = seenDevices
        /\ DOMAIN seenRssis' = DOMAIN seenRssis

\* C18: while network mode is active doBTScan starts no scan and runs no
\* purge, and the tick path deletes or re-stamps no record.
C18_SuspendedWhileNetworkActive ==
    [][C18_ScanStep]_vars /\ [][C18_LoopStep]_vars

C18_Witness ==
    /\ pc = NextPc("doBTScan")
    /\ isWifiIsOn /\ wifiOnStartMillis # 0
    /\ ~lastPurge.ran
    /\ "b1" \in DOMAIN seenDevices
    /\ seenDevices["b1"] < wifiOnStartMillis
    /\ millis - seenDevices["b1"] > settings.maxNotSeenMillis

\* C19: a purge removes a record only when more than maxNotSeenMillis of
\* time outside suspensions has passed since its last sighting, whether the
\* sighting came before a suspension or from a callback during one.
C19_PurgeStep ==
    PurgeStep =>
        \A id \in (DOMAIN seenDevices) \ (DOMAIN seenDevices') :
            awakeMillis' - seenAwake[id] > settings.maxNotSeenMillis

C19_NoEvictionBySuspension == [][C19_PurgeStep]_vars

\* C20 as stated: triggerWifiIsOn changes only in the run of the button
\* handler that commits a WifiToggle on a release.
C20_OnlyReleaseStep ==
    triggerWifiIsOn' # triggerWifiIsOn =>
        /\ pc = "doHandleButtonPresses"
        /\ lastRelease'.observed
        /\ "WifiToggle" \in lastRelease'.committed

C20_OnlyWifiToggle == [][C20_OnlyReleaseStep]_vars

\* C20: triggerWifiIsOn changes only in the run of the button handler that
\* commits a WifiToggle on a release, or when handleSettingsPost stores a
\* changed access-point password, which clears it.
C20_ReleaseOrPasswordStep ==
    triggerWifiIsOn' # triggerWifiIsOn =>
        \/ /\ pc = "doHandleButtonPresses"
           /\ lastRelease'.observed
           /\ "WifiToggle" \in lastRelease'.committed
        \/ /\ pc = "doHandleNetworkTasks"
           /\ isWifiIsOn' /\ ~triggerWifiIsOn'
           /\ settings'.apPwd # settings.apPwd
           /\ lastPage' = REBOOT

C20_WifiToggleOrPasswordChange == [][C20_ReleaseOrPasswordStep]_vars

C20_Witness ==
    /\ pc = NextPc("doHandleNetworkTasks")
    /\ lastPage = REBOOT
    /\ isWifiIsOn /\ ~triggerWifiIsOn
    /\ ~lastRelease.observed

(***************************************************************************)
(* Vocabulary of the settings claims.  lastPost is what the run of         *)
(* handleSettingsPost in the step that has just finished did; lastPage is  *)
(* the message of the page served after it.                                *)
(***************************************************************************)
SaveFailed == lastPost.ran /\ lastPost.saves > 0 /\ ~lastPost.ok

\* C21 (the message): after a settings update whose saveSettings() returned
\* false the page shows the failure message, whatever fields changed.
C21_FailureShown == SaveFailed => lastPage = FAILED

\* C21 (no retry): the update calls saveSettings() once and leaves the flash
\* as it was when that call fails.
C21_NoRetryStep ==
    SaveFailed' => lastPost'.saves = 1 /\ eeprom' = eeprom

\* C21: whenever saveSettings() returns false during a settings update, the
\* message reported on the settings page is the failure message, for every
\* combination of changed fields, and the save is not retried.
C21_FailedSaveReported == []C21_FailureShown /\ [][C21_NoRetryStep]_vars

\* The same for the updates that leave the access-point password alone.
C21_FailureShownUnlessPassword ==
    (SaveFailed /\ "apPwd" \notin lastPost.changed) => lastPage = FAILED

(***************************************************************************)
(* Vocabulary of the learning claims.                                      *)
(***************************************************************************)
LearnDemandOn ==
    /\ <<LEARN_FUNCTION_ID, LEARN_LED_ID>> \in DOMAIN ledMan.callerStates
    /\ ledMan.callerStates[<<LEARN_FUNCTION_ID, LEARN_LED_ID>>] = HIGH

LearnTaskStep ==
    /\ pc = "doCheckLearnTask" /\ pc' = NextPc("doCheckLearnTask")
    /\ triggerDeviceLearn

\* C22 (the window): while a learning session is open the trigger is still
\* pending and the learn caller demands the learn LED on.
C22_DemandWhileLearning == isLearning => triggerDeviceLearn /\ LearnDemandOn

\* C22 (the task): a run of doCheckLearnTask with the trigger pending opens
\* the session if none is open; if now - learnStart > learnDurationMillis it
\* pairs with the nearest device of the table, writes the flash only if the
\* target changed, clears both flags and removes the learn demand; otherwise
\* it changes no setting and keeps the session open with the demand on.
C22_LearnTaskStep ==
    LearnTaskStep =>
        LET started == IF isLearning THEN learnStartMillis ELSE millis
        IN IF (millis - started) % ULongWrap > settings.learnDurationMillis
           THEN /\ DOMAIN seenDevices # {} =>
                    /\ settings'.pairedAddress
                            \in Loudest(seenDevices, seenRssis)
                    /\ \A id \in Loudest(seenDevices, seenRssis) :
                            Rank(settings'.pairedAddress) <= Rank(id)
                /\ settings' = [settings EXCEPT
                                    !.pairedAddress = settings'.pairedAddress]
                /\ eeprom' \in {eeprom, settings'}
                /\ settings' = settings => eeprom' = eeprom
                /\ ~isLearning' /\ ~triggerDeviceLearn'
                /\ <<LEARN_FUNCTION_ID, LEARN_LED_ID>>
                        \notin DOMAIN ledMan'.callerStates
           ELSE /\ isLearning' /\ triggerDeviceLearn'
                /\ learnStartMillis' = started
                /\ LearnDemandOn'
                /\ UNCHANGED <<settings, eeprom>>

\* C22 (completion): a Learn trigger raised while the clock still has more
\* than learnDurationMillis to run is followed by the end of the session.
C22_TriggerCompletes ==
    (triggerDeviceLearn
        /\ ticks + settings.learnDurationMillis + 1 <= world.maxTicks)
    ~> (~triggerDeviceLearn /\ ~isLearning)

\* C22: after a Learn trigger the learn caller's demand on the learn LED is
\* on for the whole discovery window; at the first run of the learn task with
\* now - learnStart > learnDurationMillis the pairing target becomes the
\* nearest device of the table (saved only if it differs), both flags are
\* cleared and the learn demand is removed; every Learn trigger reaches this
\* completion.
C22_LearnWindowThenPair ==
    /\ []C22_DemandWhileLearning
    /\ [][C22_LearnTaskStep]_vars
    /\ C22_TriggerCompletes

\* A session of a switch paired with b1 has just ended over a table in which
\* only b2 is left: the target is b2, also in the flash, and the demand is
\* gone.
C22_Witness ==
    /\ pc = NextPc("doCheckLearnTask")
    /\ ~triggerDeviceLearn /\ ~isLearning
    /\ learnStartMillis > 0 /\ millis > learnStartMillis
    /\ ~LearnDemandOn
    /\ settings.pairedAddress = "b2" /\ eeprom.pairedAddress = "b2"
    /\ DOMAIN seenDevices = {"b2"}

(***************************************************************************)
(* Vocabulary of the WiFi indicator claims.                                *)
(***************************************************************************)
Demand(c, l) == <<c, l>> \in DOMAIN ledMan.callerStates

Locked(c, l) == <<c, l>> \in DOMAIN ledMan.locks

Outranks(c, d) ==
    /\ c \in DOMAIN ledMan.priorities /\ d \in DOMAIN ledMan.priorities
    /\ ledMan.priorities[c] < ledMan.priorities[d]

\* C23: whenever LedMan::loop() is about to run in network mode, the wifi
\* caller holds a demand on the close LED (on, or off under its lock) and
\* outranks the proximity caller, so that the close LED never shows the
\* proximity indicator; also after a press released without a toggle.
C23_WifiOwnsCloseLed ==
    (pc = "ledMan.loop" /\ isWifiIsOn) =>
        /\ Demand(WIFI_ENABLE_FUNCTION_ID, CLOSE_LED_ID)
        /\ \/ ledMan.callerStates[<<WIFI_ENABLE_FUNCTION_ID, CLOSE_LED_ID>>]
                    = HIGH
           \/ Locked(WIFI_ENABLE_FUNCTION_ID, CLOSE_LED_ID)
        /\ Outranks(WIFI_ENABLE_FUNCTION_ID, CLOSE_FUNCTION_ID)

\* What the LED then shows: in network mode, with the WiFi flash silent, the
\* close LED is lit by the proximity caller.
C23_ProximityShown ==
    /\ pc = NextPc("ledMan.loop") /\ isWifiIsOn /\ triggerWifiIsOn
    /\ ~Demand(WIFI_ENABLE_FUNCTION_ID, CLOSE_LED_ID)
    /\ Demand(CLOSE_FUNCTION_ID, CLOSE_LED_ID)
    /\ gpio[CLOSE_LED_PIN] = HIGH

\* C24 (the feedback): a run of LedMan::loop() in network mode, after a run
\* of the button handler that saw the button held in network mode for longer
\* than triggerWiFiOffMillis, resolves the close LED to off.
C24_HeldShowsOff ==
    (/\ pc = "ledMan.loop" /\ pc' = NextPc("ledMan.loop")
     /\ isWifiIsOn
     /\ lastHold.held /\ lastHold.active
     /\ lastHold.elapsed > settings.triggerWiFiOffMillis)
        => gpio'[CLOSE_LED_PIN] = LOW

\* C24 (the release): a release observed in network mode after a hold longer
\* than triggerWiFiOffMillis commits exactly WifiToggle, and network mode is
\* inactive when that iteration of loop() ends.
C24_ReleaseTurnsOff ==
    (/\ lastRelease.observed /\ lastRelease.active
     /\ lastRelease.elapsed > settings.triggerWiFiOffMillis)
        => /\ lastRelease.committed = {"WifiToggle"}
           /\ pc = LoopOrder[1] => ~isWifiIsOn

\* C24: with network mode active, the hold feedback agrees with the release
\* outcome: while the button is held with elapsed > triggerWiFiOffMillis the
\* close LED resolves to off, and a release at any such elapsed commits
\* WifiToggle so that network mode is inactive by the end of that tick.
C24_FeedbackAgreesWithRelease ==
    []C24_ReleaseTurnsOff /\ [][C24_HeldShowsOff]_vars

\* The same for the releases the handler observes with the network-enable
\* flag still set.
C24_ReleaseTurnsOffWhileEnabled ==
    (/\ lastRelease.observed /\ lastRelease.active /\ lastRelease.enabled
     /\ lastRelease.elapsed > settings.triggerWiFiOffMillis)
        => /\ lastRelease.committed = {"WifiToggle"}
           /\ pc = LoopOrder[1] => ~isWifiIsOn

C24_ReleasedAfterFeedback ==
    /\ pc = LoopOrder[1] /\ ~isWifiIsOn
    /\ lastRelease.observed /\ lastRelease.active /\ lastRelease.enabled
    /\ lastRelease.elapsed > settings.triggerWiFiOffMillis
    /\ gpio[CLOSE_LED_PIN] = LOW

(***************************************************************************)
(* Vocabulary of the lock claims: the demands and locks of the other       *)
(* (caller, LED) pairs, which lockLed and releaseLed leave alone.          *)
(***************************************************************************)
OthersKept(c, l) ==
    /\ \A k \in (DOMAIN ledMan.callerStates) \cup (DOMAIN ledMan'.callerStates) :
            k # <<c, l>> =>
                /\ k \in DOMAIN ledMan.callerStates
                /\ k \in DOMAIN ledMan'.callerStates
                /\ ledMan'.callerStates[k] = ledMan.callerStates[k]
    /\ (DOMAIN ledMan'.locks) \ {<<c, l>>} = (DOMAIN ledMan.locks) \ {<<c, l>>}
    /\ ledMan'.priorities = ledMan.priorities
    /\ ledMan'.registeredLeds = ledMan.registeredLeds

\* C25 (lockLed): the lock is recorded; a caller without a demand on the LED
\* gets one at off, an existing demand keeps its level.
C25_LockStep ==
    \A c \in LedCallers, l \in LedLeds :
        lastCall' = Call("lockLed", l, c) =>
            /\ HasLock(c, l)'
            /\ HasDemand(c, l)'
            /\ Level(c, l)' = IF HasDemand(c, l) THEN Level(c, l) ELSE LOW
            /\ OthersKept(c, l)

\* C25 (releaseLed): with a lock, the lock is removed and the demand is
\* removed exactly when it is off; without a lock nothing changes.
C25_ReleaseStep ==
    \A c \in LedCallers, l \in LedLeds :
        lastCall' = Call("releaseLed", l, c) =>
            IF HasLock(c, l)
            THEN /\ ~HasLock(c, l)'
                 /\ HasDemand(c, l)' <=>
                        (HasDemand(c, l) /\ Level(c, l) = HIGH)
                 /\ HasDemand(c, l)' => Level(c, l)' = HIGH
                 /\ OthersKept(c, l)
            ELSE ledMan' = ledMan

\* C25: lockLed(led, caller) records the lock and, only if the caller has no
\* demand on that LED, creates a demand at off; releaseLed(led, caller)
\* removes the lock and removes the caller's demand exactly when that demand
\* is off (an on demand survives); releaseLed without a lock changes nothing.
C25_LockAndRelease == [][C25_LockStep]_vars /\ [][C25_ReleaseStep]_vars

\* A released its lock and its on demand is still there, next to the locked
\* off demand of B.
C25_Witness ==
    /\ lastCall = Call("releaseLed", LEARN_LED_ID, "A")
    /\ ~HasLock("A", LEARN_LED_ID)
    /\ HasDemand("A", LEARN_LED_ID) /\ Level("A", LEARN_LED_ID) = HIGH
    /\ HasLock("B", LEARN_LED_ID)
    /\ HasDemand("B", LEARN_LED_ID) /\ Level("B", LEARN_LED_ID) = LOW

(***************************************************************************)
(* Vocabulary of the factory reset claims.                                 *)
(***************************************************************************)
\* The run of doCheckFactoryReset that finds the trigger (a scan callback
\* that arrives first leaves pc where it is).
ResetStep == pc = "doCheckFactoryReset" /\ pc' # pc /\ triggerFactoryReset

FreshBoot ==
    /\ pc' = LoopOrder[1]
    /\ ~triggerFactoryReset' /\ ~triggerDeviceLearn' /\ ~triggerWifiIsOn'
    /\ ~isLearning' /\ ~isWifiIsOn'
    /\ seenDevices' = EmptyMap /\ seenRssis' = EmptyMap

\* C26 (the order): a pending FactoryReset trigger is only ever seen by
\* doCheckFactoryReset, the function loop() calls right after the button
\* handler: no learn task and no network task runs with it pending.
C26_PendingOnlyBeforeReset ==
    triggerFactoryReset => pc = "doCheckFactoryReset"

\* C26 (the reset): the run of doCheckFactoryReset that finds the trigger
\* ends in a fresh boot with the factory configuration, in RAM and in the
\* flash, and the sentinel as pairing target.
C26_ResetStep ==
    ResetStep =>
        /\ FreshBoot
        /\ settings' = FactorySettings /\ eeprom' = FactorySettings
        /\ settings'.pairedAddress = UNPAIRED

\* C26: on a FactoryReset trigger, within the same tick the confirmation
\* flash terminates, the configuration is reset to factory defaults (pairing
\* target becomes the sentinel) and the device restarts, with no learn-task
\* or network-task step executed in between; after the restart no trigger is
\* pending and the sighting table is empty.
C26_ResetInSameTick ==
    []C26_PendingOnlyBeforeReset /\ [][C26_ResetStep]_vars

\* The same, whatever Settings::factoryDefault() returns: the boot is fresh,
\* with the factory configuration or, after a failed write, the stored one.
C26_RestartStep ==
    ResetStep =>
        /\ FreshBoot
        /\ settings' = eeprom'
        /\ eeprom' \in {FactorySettings, eeprom}

C26_RestartInSameTick ==
    []C26_PendingOnlyBeforeReset /\ [][C26_RestartStep]_vars

(***************************************************************************)
(* C27: while a learning session or a factory reset is pending, a run of   *)
(* doHandleButtonPresses changes no press timer, no trigger flag and no    *)
(* LED demand or lock, whatever the button level.                          *)
(***************************************************************************)
C27_PendingStep ==
    (/\ pc = "doHandleButtonPresses" /\ pc' = NextPc("doHandleButtonPresses")
     /\ triggerDeviceLearn \/ triggerFactoryReset)
        => /\ UNCHANGED <<timerMillis, subTimerMillis>>
           /\ UNCHANGED <<triggerDeviceLearn, triggerFactoryReset,
                          triggerWifiIsOn>>
           /\ ledMan'.callerStates = ledMan.callerStates
           /\ ledMan'.locks = ledMan.locks
           /\ ~lastRelease'.observed

C27_ButtonIgnoredWhilePending == [][C27_PendingStep]_vars

\* The handler has just run with the button down in the middle of a learning
\* session.
C27_Witness ==
    /\ pc = NextPc("doHandleButtonPresses")
    /\ triggerDeviceLearn /\ isLearning
    /\ gpio[PAIR_BTN_PIN] = HIGH
    /\ timerMillis = 0
    /\ ~lastHold.held

(***************************************************************************)
(* C28: with the scan callback in a context of its own, its accesses to    *)
(* the two maps exclude those of loop(): no function of loop() that uses   *)
(* the maps (purge, presence test, close-device scan, nearest search) runs *)
(* while the callback is inside, or sees a key in one map and not in the   *)
(* other.                                                                  *)
(***************************************************************************)
MapAccessStep ==
    /\ pc \in MapAccessors /\ pc' = NextPc(pc)
    /\ pc = "doBTScan" => ~isWifiIsOn
    /\ pc = "doCheckLearnTask" => (triggerDeviceLearn /\ ~triggerDeviceLearn')

C28_ExclusiveStep ==
    MapAccessStep =>
        /\ ~callback.busy
        /\ DOMAIN seenDevices = DOMAIN seenRssis

C28_CallbackExcludesLoop == [][C28_ExclusiveStep]_vars

\* What loop() then does: the presence test has run on a table that holds a
\* device whose RSSI is not there yet.
C28_TornTableRead ==
    /\ pc = NextPc("doHandleOnOffSwitching")
    /\ lastSwitch.ran /\ lastSwitch.state
    /\ callback.busy /\ callback.half # ""
    /\ callback.half \in DOMAIN seenDevices
    /\ callback.half \notin DOMAIN seenRssis

(***************************************************************************)
(* C29: with network mode inactive and the clock advancing, scanning does  *)
(* not stall: the run of doBTScan that finds the scan phase idle (the      *)
(* completion callback has come) starts a scan, the run that finds a scan  *)
(* open for more than the ceiling restarts scanning, and every scan left   *)
(* open is followed by the start of a new scan, as long as the clock of    *)
(* the model has three more ticks to go.                                   *)
(***************************************************************************)
ScanRuns == pc = "doBTScan" /\ pc' = NextPc(pc) /\ ~isWifiIsOn

\* doBTScan has just started a scan.
ScanStarted ==
    /\ pc = NextPc("doBTScan") /\ ~isWifiIsOn
    /\ isScanning /\ scanActive /\ scanningWatchdogMillis = millis

C29_StartAfterCallback ==
    (ScanRuns /\ ~isScanning) =>
        /\ isScanning' /\ scanActive'
        /\ scanningWatchdogMillis' = millis'

C29_RestartAfterCeiling ==
    (ScanRuns /\ isScanning /\ ~firstRun
        /\ Elapsed(millis, scanningWatchdogMillis) > WatchdogMillis) =>
        /\ isScanning' /\ scanActive'
        /\ millis' = ULong(millis + 500)
        /\ scanningWatchdogMillis' = millis'
        /\ btScanWDExpos' = btScanWDExpos + 1

C29_ScanStartedLater ==
    (isScanning /\ ~isWifiIsOn /\ ~ScanStarted /\ ticks + 3 <= world.maxTicks)
        ~> ScanStarted

C29_ScanningNeverStalls ==
    /\ [][C29_StartAfterCallback]_vars
    /\ [][C29_RestartAfterCeiling]_vars
    /\ C29_ScanStartedLater

\* The watchdog has restarted a scan whose callback never came, and the
\* callback of an earlier scan had been followed by a new scan.
C29_Witness ==
    /\ ScanStarted
    /\ btScanWDExpos = 1
    /\ ticks >= 3
    /\ seenAwake # EmptyMap

(***************************************************************************)
(* C30: the scan watchdog and the learning window measure (now - start)    *)
(* modulo the width of the clock, and so expire after the same true time   *)
(* whether or not the clock wraps between start and now: the run of        *)
(* doBTScan restarts an open scan exactly when more than the ceiling has   *)
(* truly passed since the scan was started, and the run of                 *)
(* doCheckLearnTask ends the learning exactly when more than               *)
(* learnDurationMillis has truly passed since it began (for true times     *)
(* below one full turn of the clock).                                      *)
(***************************************************************************)
C30_WatchdogStep ==
    (/\ pc = "doBTScan" /\ pc' = NextPc(pc)
     /\ ~isWifiIsOn /\ isScanning /\ ~firstRun
     /\ uptime.now - uptime.wd < ULongWrap) =>
        /\ Elapsed(millis, scanningWatchdogMillis) = uptime.now - uptime.wd
        /\ (btScanWDExpos' = btScanWDExpos + 1)
                <=> (uptime.now - uptime.wd > WatchdogMillis)

C30_LearnStep ==
    (/\ pc = "doCheckLearnTask" /\ pc' = NextPc(pc)
     /\ triggerDeviceLearn /\ isLearning
     /\ uptime.now - uptime.learn < ULongWrap) =>
        /\ Elapsed(millis, learnStartMillis) = uptime.now - uptime.learn
        /\ (~triggerDeviceLearn')
                <=> (uptime.now - uptime.learn > settings.learnDurationMillis)

C30_ExpiryAcrossWrap ==
    [][C30_WatchdogStep]_vars /\ [][C30_LearnStep]_vars

\* A watchdog expiry and a learning window that began before the wrap of
\* the clock and ended after it.
C30_Witness ==
    /\ uptime.wdOver.from < ULongWrap /\ uptime.wdOver.to >= ULongWrap
    /\ uptime.wdOver.from > 0
    /\ uptime.learnOver.from < ULongWrap /\ uptime.learnOver.to >= ULongWrap
    /\ uptime.learnOver.from > 0
    /\ ~triggerDeviceLearn /\ ~isLearning

(***************************************************************************)
(* C31: when doCheckForCloseDevice has run, the proximity caller's demand  *)
(* on the close LED is on exactly when a record of the table has an RSSI   *)
(* of closeRssi or more, and the caller has no demand otherwise.           *)
(***************************************************************************)
CloseRecords == {id \in DOMAIN seenRssis : seenRssis[id] >= settings.closeRssi}

C31_ProximityStep ==
    (pc = "doCheckForCloseDevice" /\ pc' = NextPc(pc)) =>
        IF CloseRecords # {}
        THEN /\ <<CLOSE_FUNCTION_ID, CLOSE_LED_ID>>
                    \in DOMAIN ledMan'.callerStates
             /\ ledMan'.callerStates[<<CLOSE_FUNCTION_ID, CLOSE_LED_ID>>] = HIGH
        ELSE <<CLOSE_FUNCTION_ID, CLOSE_LED_ID>>
                \notin DOMAIN ledMan'.callerStates

C31_ProximityDemand == [][C31_ProximityStep]_vars

\* The step has seen a record exactly at the threshold beside one below it.
C31_Witness ==
    /\ pc = NextPc("doCheckForCloseDevice")
    /\ Demand(CLOSE_FUNCTION_ID, CLOSE_LED_ID)
    /\ \E id \in DOMAIN seenRssis : seenRssis[id] = settings.closeRssi
    /\ \E id \in DOMAIN seenRssis : seenRssis[id] < settings.closeRssi
    /\ \A id \in DOMAIN seenRssis : seenRssis[id] <= settings.closeRssi
    /\ ticks >= 1

(***************************************************************************)
(* C32: in every configuration the switch can have (the factory defaults,  *)
(* the values after a settings update or a load) the gesture thresholds    *)
(* are strictly ordered wifiOnThreshold < learnThreshold <                 *)
(* factoryResetThreshold.                                                  *)
(***************************************************************************)
C32_ThresholdsOrdered ==
    /\ settings.triggerWiFiOnMillis < settings.triggerLearnMillis
    /\ settings.triggerLearnMillis < settings.triggerFactoryMillis

Thresholds(s) ==
    [f \in {"triggerLearnMillis", "triggerWiFiOnMillis",
            "triggerFactoryMillis"} |-> s[f]]

\* The order of the factory defaults: learn, then WiFi, then factory reset.
LearnBeforeWifi(s) ==
    /\ s.triggerLearnMillis < s.triggerWiFiOnMillis
    /\ s.triggerWiFiOnMillis < s.triggerFactoryMillis

C32_ShippedOrPosted ==
    \/ Thresholds(settings) = Thresholds(FactorySettings) /\ LearnBeforeWifi(settings)
    \/ \E form \in world.forms : Thresholds(settings) = Thresholds(form)

C32_PostStep ==
    lastPost'.ran =>
        \E form \in world.forms : Thresholds(settings') = Thresholds(form)

\* C32, as the code has it: the thresholds are those of the factory
\* defaults, ordered learn < WiFi on < factory reset, until a settings
\* update posts others, and an update stores the posted thresholds as they
\* are, in whatever order.
C32_ShippedOrderUntilPosted ==
    []C32_ShippedOrPosted /\ [][C32_PostStep]_vars

\* An update has stored and saved a learn threshold above the factory
\* threshold.
C32_Witness ==
    /\ lastPost.ran /\ lastPost.ok
    /\ settings.triggerFactoryMillis < settings.triggerLearnMillis
    /\ eeprom = settings

(***************************************************************************)
(* C33: a run of doHandleButtonPresses that reads the button as pressed    *)
(* changes LED demands and locks (and its timers) only: the factory-reset, *)
(* learn and network-enable flags keep their values, however long the      *)
(* button has been held, and so does everything else the firmware decides  *)
(* on.                                                                     *)
(***************************************************************************)
C33_HeldStep ==
    (/\ pc = "doHandleButtonPresses" /\ pc' = NextPc("doHandleButtonPresses")
     /\ gpio'[PAIR_BTN_PIN] = HIGH) =>
        /\ UNCHANGED <<triggerFactoryReset, triggerDeviceLearn,
                       triggerWifiIsOn>>
        /\ UNCHANGED <<settings, eeprom, onState, seenDevices, seenRssis,
                       isLearning, isWifiIsOn, isScanning>>
        /\ ~lastRelease'.observed

C33_HoldIsCosmetic == [][C33_HeldStep]_vars

\* The handler has run with the button down past every threshold: the
\* feedback of the factory reset is shown and nothing is pending.
C33_Witness ==
    /\ pc = NextPc("doHandleButtonPresses")
    /\ lastHold.held
    /\ lastHold.elapsed > settings.triggerFactoryMillis
    /\ lastHold.elapsed > settings.triggerWiFiOnMillis
    /\ lastHold.elapsed > settings.triggerLearnMillis
    /\ Locked(FACTORY_RESET_FUNCTION_ID, LEARN_LED_ID)
    /\ ~triggerFactoryReset /\ ~triggerDeviceLearn /\ ~triggerWifiIsOn

(***************************************************************************)
(* C34: a call of lockLed, releaseLed, ledOn, ledOff or ledToggle for      *)
(* (caller c, LED l) leaves the demand and the lock of every other         *)
(* (caller, LED) pair as they were, and LedMan::loop() changes no demand   *)
(* and no lock.                                                            *)
(***************************************************************************)
PairOps == {"lockLed", "releaseLed", "ledOn", "ledOff", "ledToggle"}

C34_CallStep ==
    \A c \in FrameCallers, l \in FrameLeds, op \in PairOps :
        lastCall' = Call(op, l, c) => OthersKept(c, l)

C34_LoopStep ==
    lastCall' = Call("loop", "", "") =>
        /\ ledMan'.callerStates = ledMan.callerStates
        /\ ledMan'.locks = ledMan.locks

C34_OtherPairsKept == [][C34_CallStep]_vars /\ [][C34_LoopStep]_vars

\* The close caller has just turned the close LED on beside the locked off
\* demand of the wifi caller on it, its own demand on the learn LED and the
\* lock of the wifi caller there, and loop() has run with demands in place.
C34_Witness ==
    /\ lastCall = Call("ledOn", CLOSE_LED_ID, CLOSE_FUNCTION_ID)
    /\ HasLock(WIFI_ENABLE_FUNCTION_ID, CLOSE_LED_ID)
    /\ HasDemand(WIFI_ENABLE_FUNCTION_ID, CLOSE_LED_ID)
    /\ Level(WIFI_ENABLE_FUNCTION_ID, CLOSE_LED_ID) = LOW
    /\ HasDemand(CLOSE_FUNCTION_ID, LEARN_LED_ID)
    /\ HasLock(WIFI_ENABLE_FUNCTION_ID, LEARN_LED_ID)
    /\ gpio[LEARN_LED_PIN] = HIGH

(***************************************************************************)
(* C35: in every state the LedMan operations lead to, a stored demand at   *)
(* off belongs to a caller that holds a lock on that LED.                  *)
(***************************************************************************)
C35_OffOnlyUnderLock ==
    \A k \in DOMAIN ledMan.callerStates :
        ledMan.callerStates[k] = LOW => k \in DOMAIN ledMan.locks

\* A locked off demand that has been on in between, beside an unlocked on
\* demand.
C35_Witness ==
    /\ lastCall = Call("ledToggle", LEARN_LED_ID, "A")
    /\ HasLock("A", LEARN_LED_ID)
    /\ HasDemand("A", LEARN_LED_ID) /\ Level("A", LEARN_LED_ID) = LOW
    /\ HasDemand("B", LEARN_LED_ID) /\ Level("B", LEARN_LED_ID) = HIGH
    /\ ~HasLock("B", LEARN_LED_ID)

(***************************************************************************)
(* C36: a caller that holds a demand on an LED and has no registered       *)
(* priority never determines the output of that LED while a caller with a  *)
(* registered priority holds a demand on it too: LedMan::loop() then       *)
(* resolves the LED to the level of a caller that is foremost among the    *)
(* demanders with a priority.                                              *)
(***************************************************************************)
C36_LoopStep ==
    lastCall' = Call("loop", "", "") =>
        \A l \in DOMAIN ledMan.registeredLeds :
            LET ranked == {c \in LedCallers :
                            /\ HasDemand(c, l)
                            /\ c \in DOMAIN ledMan.priorities}
            IN ranked # {} =>
                \E c \in ranked :
                    /\ \A d \in ranked :
                            ledMan.priorities[c] <= ledMan.priorities[d]
                    /\ gpio'[ledMan.registeredLeds[l]] = Level(c, l)

C36_UnrankedNeverDecides == [][C36_LoopStep]_vars

\* What loop() does instead: A, without a priority, is on, B with priority 1
\* holds a locked off demand, and the LED is on; A now has priority 0.
C36_UnrankedDecides ==
    /\ lastCall = Call("loop", "", "")
    /\ HasDemand("A", LEARN_LED_ID) /\ Level("A", LEARN_LED_ID) = HIGH
    /\ HasDemand("B", LEARN_LED_ID) /\ Level("B", LEARN_LED_ID) = LOW
    /\ "B" \in DOMAIN ledMan.priorities /\ ledMan.priorities["B"] = 1
    /\ "A" \in DOMAIN ledMan.priorities /\ ledMan.priorities["A"] = 0
    /\ gpio[LEARN_LED_PIN] = HIGH

(***************************************************************************)
(* C37: when several callers that hold a demand on an LED share the        *)
(* smallest priority number, LedMan::loop() resolves the LED to the level  *)
(* of the one among them whose caller id comes last in the order of the    *)
(* ids, whatever the order in which the demands were made.                 *)
(***************************************************************************)
\* The position of a caller id in the key order of callerStates.
KeyRank(c) == CHOOSE i \in 1..Len(CallerOrder) : CallerOrder[i] = c

LastForemost(l) ==
    CHOOSE c \in Foremost(l) : \A d \in Foremost(l) : KeyRank(d) <= KeyRank(c)

C37_TieGoesToLastId ==
    lastCall.op = "loop" =>
        \A l \in DOMAIN ledMan.registeredLeds :
            Foremost(l) # {} => Output(l) = Level(LastForemost(l), l)

\* A, B and C share priority 1; A and B demand on, C holds a locked off
\* demand, and the LED is off.
C37_Witness ==
    /\ lastCall.op = "loop"
    /\ LEARN_LED_ID \in DOMAIN ledMan.registeredLeds
    /\ \A c \in LedCallers :
            /\ HasDemand(c, LEARN_LED_ID)
            /\ c \in DOMAIN ledMan.priorities /\ ledMan.priorities[c] = 1
    /\ Level("A", LEARN_LED_ID) = HIGH
    /\ Level("B", LEARN_LED_ID) = HIGH
    /\ Level("C", LEARN_LED_ID) = LOW
    /\ Output(LEARN_LED_ID) = LOW

(***************************************************************************)
(* C38: a learning session that completes while the sighting table is      *)
(* empty leaves the pairing target as it was and persists nothing.         *)
(***************************************************************************)
C38_EmptyCompletion ==
    (/\ pc = "doCheckLearnTask" /\ pc' = NextPc("doCheckLearnTask")
     /\ triggerDeviceLearn /\ ~triggerDeviceLearn'
     /\ DOMAIN seenDevices = {}) =>
        /\ settings'.pairedAddress = settings.pairedAddress
        /\ eeprom' = eeprom

C38_EmptyTableKeepsTarget == [][C38_EmptyCompletion]_vars

\* What the completion does instead: the target is the empty id, in the
\* configuration and in flash, and the maps are still empty.
C38_PairedWithNothing ==
    /\ pc = NextPc("doCheckLearnTask")
    /\ ~triggerDeviceLearn /\ ~isLearning
    /\ settings.pairedAddress = ""
    /\ eeprom.pairedAddress = ""
    /\ DOMAIN seenDevices = {}

(***************************************************************************)
(* C39: at every tick boundary (loop() is about to begin) at most one of   *)
(* these holds: a learning session is pending or in progress, a factory    *)
(* reset is pending, network mode is active.                               *)
(***************************************************************************)
TickBoundary == pc = LoopOrder[1]

ModesAtBoundary ==
    {m \in {"learn"} : triggerDeviceLearn \/ isLearning}
        \cup {m \in {"reset"} : triggerFactoryReset}
        \cup {m \in {"network"} : isWifiIsOn}

C39_OneModeAtBoundary == TickBoundary => Cardinality(ModesAtBoundary) <= 1

\* A learning session is in progress at the boundary, committed by a release
\* that found network mode still active.
C39_Witness ==
    /\ TickBoundary
    /\ triggerDeviceLearn /\ isLearning /\ ~isWifiIsOn
    /\ lastRelease.observed /\ lastRelease.active
    /\ "Learn" \in lastRelease.committed

(***************************************************************************)
(* C40: the watchdog counter increases only in a run of doBTScan with      *)
(* network mode inactive and more than 15000 ms since the last scan start  *)
(* (or refresh of the watchdog timer); it never increases on the first     *)
(* scan start, on a restart that follows a completion callback, or during  *)
(* network mode.                                                           *)
(***************************************************************************)
SinceStamp == uptime.now - uptime.wd

C40_IncreaseStep ==
    btScanWDExpos' > btScanWDExpos =>
        /\ pc = "doBTScan" /\ pc' = NextPc("doBTScan")
        /\ ~isWifiIsOn /\ ~firstRun
        /\ SinceStamp > WatchdogMillis
        /\ btScanWDExpos' = btScanWDExpos + 1

C40_AfterCallbackStep ==
    (pc = "doBTScan" /\ pc' = NextPc("doBTScan") /\ ~isScanning) =>
        btScanWDExpos' = btScanWDExpos

C40_NeverAfterCallback ==
    [][C40_IncreaseStep]_vars /\ [][C40_AfterCallbackStep]_vars

\* C40, as the code has it: the counter increases, by one, only in a run of
\* doBTScan with network mode inactive, after the first scan start and more
\* than 15000 ms after the watchdog timer was last written; whether the
\* completion callback has come in the meantime plays no part.  A restart
\* that follows a completion callback is not counted when it comes within
\* the 15000 ms.
C40_CallbackInTimeStep ==
    (/\ pc = "doBTScan" /\ pc' = NextPc("doBTScan")
     /\ ~isScanning /\ SinceStamp <= WatchdogMillis) =>
        btScanWDExpos' = btScanWDExpos

C40_CountedStep ==
    (/\ pc = "doBTScan" /\ pc' = NextPc("doBTScan")
     /\ ~isWifiIsOn /\ ~firstRun /\ SinceStamp > WatchdogMillis
     /\ SinceStamp < ULongWrap) =>
        btScanWDExpos' = btScanWDExpos + 1

C40_CountsExpiredStamp ==
    /\ [][C40_IncreaseStep]_vars
    /\ [][C40_CallbackInTimeStep]_vars
    /\ [][C40_CountedStep]_vars

\* The counter has been increased by a run of doBTScan that found the scan
\* completed, more than 15000 ms after its start.
C40_Witness ==
    /\ pc = NextPc("doBTScan")
    /\ btScanWDExpos = 1
    /\ uptime.wdOver.to = uptime.now - 500
    /\ uptime.wdOver.to - uptime.wdOver.from > WatchdogMillis
    /\ ~uptime.wdOver.scanning
====
